---- MODULE Spec2Model ----
(***************************************************************************)
(* git-vouched: the indexing pipeline of convex/vouch.ts                   *)
(* (src/unnamed/part_010), its HTTP entry point convex/http.ts and the     *)
(* reconciliation planner convex/entry-reconcile-plan.ts.                  *)
(*                                                                         *)
(* The specifications share the variables below.                           *)
(*   SpecGuard  the concurrency guard: the repoIndexLocks and              *)
(*              indexRateBuckets tables, the clock, and /index-repo        *)
(*              requests around indexGithubRepo.  The guard mutations      *)
(*              touch no other table, so indexGithubRepo appears here by   *)
(*              its result only.                                           *)
(*   SpecPipes  /index-repo and reindexTrackedRepos side by side;          *)
(*              SpecPipesFair adds the fairness of try/finally.            *)
(*   Spec       the storage: repositories, snapshots, entries,             *)
(*              leaderboardRows, auditBlocks and auditChanges under        *)
(*              indexGithubRepo's mutations.  A lock outlived by its       *)
(*              holder is handed on, so runs of one repository overlap;    *)
(*              Spec starts runs freely.                                   *)
(*   SpecChain  the storage of one repository, one run at a time, on the   *)
(*              moving clock.                                              *)
(* Strings the code transforms are sequences of one-character strings.     *)
(***************************************************************************)
EXTENDS Integers, Sequences, FiniteSets, TLC

(***************************************************************************)
(* Program constants (src/unnamed/part_010, lines 46-51).                  *)
(***************************************************************************)
RATE_WINDOW_MS == 60000
MAX_REQUESTS_PER_WINDOW == 10
MAX_GLOBAL_REQUESTS_PER_WINDOW == 30
MAX_REPO_GLOBAL_REQUESTS_PER_WINDOW == 15
INDEX_LOCK_TIMEOUT_MS == 60000
MAX_EXPIRED_GUARDS_TO_PRUNE == 256

(***************************************************************************)
(* Bounds of the model.                                                    *)
(***************************************************************************)
\* The clock advances in steps of half a lock TTL, at most MaxTicks times.
MaxTicks == 3
\* The same bound where the cron run takes part (SpecPipes).
MaxPipesTicks == 2
\* acquireIndexPermit is not called for a key whose bucket already counts this much.
MaxBucketCount == 11
\* The same bound where the cron run takes part (SpecPipes).
MaxPipesBucketCount == 1
\* No indexGithubRepo run fetches a file once this many audit blocks are
\* stored or on their way (Spec).
MaxAuditBlocks == 2
\* The same bound, and the clock's, where one repository is followed on the
\* clock (SpecChain).
MaxChainBlocks == 3
MaxChainTicks == 1
\* Audit blocks and clock steps where the return values of the runs are kept
\* (SpecRuns).
MaxRunBlocks == 2
MaxRunTicks == 1
\* The limit of a cron run, the 25 of crons.ts scaled down, and the number of
\* hourly runs (SpecCron).
CronLimit == 2
MaxCronRuns == 3
\* The most lines of a file parseTrustdown is called on (SpecParse).
MaxFileLines == 3
\* acquireIndexPermit is not called by a requester whose global bucket already
\* counts this much, and the clock steps, where the mutation is called
\* directly (SpecRate).
MaxRateCount == 32
\* The same bound for the second requester, whose attempts are there to fill
\* the bucket of the repository.
MaxSecondCount == 7
MaxRateTicks == 2
\* computeAuditChanges is called on lists of at most this many entries (SpecDiff).
MaxDiffLen == 2
\* acquireIndexPermit is not called for a key whose bucket already counts this
\* much where the repo strings of the requests differ (SpecSlug).
MaxSlugRequests == 3
\* computeLeaderboardDeltas is called on lists of at most this many changes
\* (SpecDeltas).
MaxDeltaChanges == 3
\* The whole windows the clock advances by, and the count of a bucket past
\* which acquireIndexPermit is no longer called for its key, where every
\* table is written (SpecTables).
MaxTableWindows == 1
MaxTableBucketCount == 2
\* The most rows the entries table starts with where the planner is called on
\* drawn inputs (SpecPlan).
MaxExisting == 3

ClockStepMs == INDEX_LOCK_TIMEOUT_MS \div 2

\* Lock keys: the repo strings the callers pass (trimmed, lower-cased).
RepoKeys == {"o/r", "o/q"}
\* Requester identities of /index-repo callers (x-indexer-client).
Requesters == {"ip:1"}
cronRequester == "cron:reindex-tracked-repositories"
HttpPipes == {"h1", "h2", "h3"}
\* SpecGuard sends every request to one repository; SpecPipes runs one
\* /index-repo request at a time beside the cron run, over both.
GuardRepoKeys == {"o/r"}
PipesHttpPipes == {"h1"}
\* What indexGithubRepo returns.
IndexStatuses == {"indexed", "missing_file", "missing_repo", "error"}

\* Slugs of normalizeGithubSlug (owner/name, lower-cased).
Slugs == {"o/r", "o/q"}
\* Concurrent indexGithubRepo runs that reach the storage.
IndexSlots == {"i1", "i2"}
\* SpecChain follows one repository through one run at a time, on the clock.
ChainSlugs == {"o/r"}
ChainSlots == {"i1"}

\* What upstream serves: the file at a commit.  "undefined" marks a commit
\* field the commits fetch did not yield.
Versions == <<
  [commitSha |-> "c1", filePath |-> ".github/VOUCHED.td",
   content |-> <<"-", " ", "b", " ", "x", "\n", "@", "A">>,
   commitUrl |-> "url1", sourceUrl |-> "src1",
   commitActor |-> "alice", commitTimestamp |-> "t1"],
  [commitSha |-> "c2", filePath |-> "VOUCHED.td",
   content |-> <<"#">>,
   commitUrl |-> "undefined", sourceUrl |-> "undefined",
   commitActor |-> "undefined", commitTimestamp |-> "undefined"],
  [commitSha |-> "c3", filePath |-> ".github/VOUCHED.td",
   content |-> <<"@", "@", "@", "a">>,
   commitUrl |-> "url3", sourceUrl |-> "undefined",
   commitActor |-> "bob", commitTimestamp |-> "t3"],
  [commitSha |-> "c4", filePath |-> ".github/VOUCHED.td",
   content |-> <<"@", "@", "a", "\n", "-", " ", "a">>,
   commitUrl |-> "url4", sourceUrl |-> "undefined",
   commitActor |-> "alice", commitTimestamp |-> "t4"] >>

\* No pure function is under call.
NoCall == [fn |-> ""]
\* The file the cron runs find upstream: the comment-only one.
CronVersion == 2

VARIABLES
  now,              \* Date.now()
  repoIndexLocks,   \* table: rows [repo, expiresAt]
  indexRateBuckets, \* table: rows [key, count, resetAt]
  http,             \* /index-repo requests: p -> [pc, repo, requester, status, acquiredAt]
  cron,             \* reindexTrackedRepos: [pc, queue, slug, acquiredAt, outcome, granted, counters]
  releaseCalls,     \* pipeline -> releaseRepoIndexLock calls of its current run
  repositories,     \* table: rows [slug, status, lastError, lastIndexedAt, counts]
  snapshots,        \* table: rows [repoId, commitSha, filePath, indexedAt]
  entries,          \* table: rows [repoId, repoSlug, snapshotId, platform, username, handle, type, details]
  leaderboardRows,  \* table: rows [platform, username, handle, counts, score, updatedAt]
  auditBlocks,      \* table: rows [repoId, snapshotId, height, ..., previousHash, blockHash, counts]
  auditChanges,     \* table: rows [repoId, blockId, platform, username, handle, action, ...]
  index,            \* indexGithubRepo runs: p -> [pc, slug, version, unchanged]
  call              \* a call of a pure function of the core: its inputs and what it returned

guard == <<repoIndexLocks, indexRateBuckets>>
callers == <<http, cron, releaseCalls>>
store == <<repositories, snapshots, entries, leaderboardRows, auditBlocks, auditChanges>>
vars == <<now, repoIndexLocks, indexRateBuckets, http, cron, releaseCalls,
          repositories, snapshots, entries, leaderboardRows, auditBlocks, auditChanges, index,
          call>>

(***************************************************************************)
(* Table helpers (ctx.db).  A table is the set of its rows; document ids   *)
(* and creation order play no part in the guard.                           *)
(***************************************************************************)
Min(S) == CHOOSE x \in S : \A y \in S : x <= y
Max(S) == CHOOSE x \in S : \A y \in S : x >= y

\* withIndex(by a timestamp, lt(t)).take(n): the n rows with the smallest
\* stamps among those with stamp < t (all of them when there are at most n).
RECURSIVE TakeOldest(_, _)
TakeOldest(rows, n) ==
  IF rows = {} \/ n = 0 THEN {}
  ELSE LET m == Min({row.stamp : row \in rows})
           first == CHOOSE row \in rows : row.stamp = m
       IN {first} \cup TakeOldest(rows \ {first}, n - 1)

(***************************************************************************)
(* acquireIndexPermit (src/unnamed/part_010, lines 422-545).               *)
(***************************************************************************)
\* Lines 448-454: delete up to 256 buckets with resetAt < now.
PruneBuckets(buckets, t) ==
  LET expired == {b \in buckets : b.resetAt < t}
  IN IF Cardinality(expired) <= MAX_EXPIRED_GUARDS_TO_PRUNE
     THEN buckets \ expired
     ELSE LET stamped == {[stamp |-> b.resetAt, row |-> b] : b \in expired}
          IN buckets \ {x.row : x \in TakeOldest(stamped, MAX_EXPIRED_GUARDS_TO_PRUNE)}

\* Lines 456-462: delete up to 256 locks with expiresAt < now.
PruneLocks(locks, t) ==
  LET expired == {l \in locks : l.expiresAt < t}
  IN IF Cardinality(expired) <= MAX_EXPIRED_GUARDS_TO_PRUNE
     THEN locks \ expired
     ELSE LET stamped == {[stamp |-> l.expiresAt, row |-> l] : l \in expired}
          IN locks \ {x.row : x \in TakeOldest(stamped, MAX_EXPIRED_GUARDS_TO_PRUNE)}

\* IsRateLimited that goes on counting in a bucket whose window is over.
IsRateLimitedKeepsWindow(buckets, key, maxRequests, t) ==
  LET hits == {b \in buckets : b.key = key}
  IN IF Cardinality(hits) > 1
     THEN [threw |-> TRUE, limited |-> FALSE, buckets |-> buckets]
     ELSE IF hits = {}
     THEN [threw |-> FALSE, limited |-> FALSE,
           buckets |-> buckets \cup {[key |-> key, count |-> 1, resetAt |-> t + RATE_WINDOW_MS]}]
     ELSE LET bucket == CHOOSE b \in hits : TRUE
          IN [threw |-> FALSE, limited |-> bucket.count + 1 > maxRequests,
              buckets |-> (buckets \ {bucket})
                            \cup {[bucket EXCEPT !.count = bucket.count + 1]}]

\* IsRateLimited that lets one attempt more than maxRequests pass.
IsRateLimitedOffByOne(buckets, key, maxRequests, t) ==
  LET hits == {b \in buckets : b.key = key}
  IN IF Cardinality(hits) > 1
     THEN [threw |-> TRUE, limited |-> FALSE, buckets |-> buckets]
     ELSE IF hits = {}
     THEN [threw |-> FALSE, limited |-> FALSE,
           buckets |-> buckets \cup {[key |-> key, count |-> 1, resetAt |-> t + RATE_WINDOW_MS]}]
     ELSE LET bucket == CHOOSE b \in hits : TRUE
          IN IF bucket.resetAt <= t
             THEN [threw |-> FALSE, limited |-> FALSE,
                   buckets |-> (buckets \ {bucket})
                                 \cup {[key |-> key, count |-> 1, resetAt |-> t + RATE_WINDOW_MS]}]
             ELSE [threw |-> FALSE, limited |-> bucket.count > maxRequests,
                   buckets |-> (buckets \ {bucket})
                                 \cup {[bucket EXCEPT !.count = bucket.count + 1]}]

\* Lines 465-493: isRateLimited(key, maxRequests) on a bucket table at time t.
\* The result is the table after the call and whether the call says "limited".
\* .unique() throws when two rows carry the key.
IsRateLimited(buckets, key, maxRequests, t) ==
  LET hits == {b \in buckets : b.key = key}
  IN IF Cardinality(hits) > 1
     THEN [threw |-> TRUE, limited |-> FALSE, buckets |-> buckets]
     ELSE IF hits = {}
     THEN [threw |-> FALSE, limited |-> FALSE,
           buckets |-> buckets \cup {[key |-> key, count |-> 1, resetAt |-> t + RATE_WINDOW_MS]}]
     ELSE LET bucket == CHOOSE b \in hits : TRUE
          IN IF bucket.resetAt <= t
             THEN [threw |-> FALSE, limited |-> FALSE,
                   buckets |-> (buckets \ {bucket})
                                 \cup {[key |-> key, count |-> 1, resetAt |-> t + RATE_WINDOW_MS]}]
             ELSE [threw |-> FALSE, limited |-> bucket.count + 1 > maxRequests,
                   buckets |-> (buckets \ {bucket})
                                 \cup {[bucket EXCEPT !.count = bucket.count + 1]}]

GlobalKey(requester) == <<"global", requester>>
RepoKey(requester, repo) == <<"repo", requester, repo>>
RepoGlobalKey(repo) == <<"repo-global", repo>>

\* Lines 495-517: the three counters in turn; the first that says "limited"
\* returns 429 at once.  limitedBy is 0 when none does.
RateLimit(buckets, repo, requester, t) ==
  LET g  == IsRateLimited(buckets, GlobalKey(requester), MAX_GLOBAL_REQUESTS_PER_WINDOW, t)
      r  == IsRateLimited(g.buckets, RepoKey(requester, repo), MAX_REQUESTS_PER_WINDOW, t)
      rg == IsRateLimited(r.buckets, RepoGlobalKey(repo), MAX_REPO_GLOBAL_REQUESTS_PER_WINDOW, t)
  IN IF g.threw THEN [threw |-> TRUE, limitedBy |-> 0, buckets |-> buckets]
     ELSE IF g.limited THEN [threw |-> FALSE, limitedBy |-> 1, buckets |-> g.buckets]
     ELSE IF r.threw THEN [threw |-> TRUE, limitedBy |-> 0, buckets |-> buckets]
     ELSE IF r.limited THEN [threw |-> FALSE, limitedBy |-> 2, buckets |-> r.buckets]
     ELSE IF rg.threw THEN [threw |-> TRUE, limitedBy |-> 0, buckets |-> buckets]
     ELSE IF rg.limited THEN [threw |-> FALSE, limitedBy |-> 3, buckets |-> rg.buckets]
     ELSE [threw |-> FALSE, limitedBy |-> 0, buckets |-> rg.buckets]

\* LockStep with the expiry test written >= : a lock is still honoured at
\* the very millisecond it expires.
LockStepHonoursExpired(locks, repo, t) ==
  LET hits == {l \in locks : l.repo = repo}
  IN IF Cardinality(hits) > 1 THEN [threw |-> TRUE, status |-> 500, locks |-> locks]
     ELSE IF hits = {}
     THEN [threw |-> FALSE, status |-> 200,
           locks |-> locks \cup {[repo |-> repo, expiresAt |-> t + INDEX_LOCK_TIMEOUT_MS]}]
     ELSE LET existingLock == CHOOSE l \in hits : TRUE
          IN IF existingLock.expiresAt >= t
             THEN [threw |-> FALSE, status |-> 409, locks |-> locks]
             ELSE [threw |-> FALSE, status |-> 200,
                   locks |-> (locks \ {existingLock})
                               \cup {[repo |-> repo, expiresAt |-> t + INDEX_LOCK_TIMEOUT_MS]}]

\* LockStep that refreshes the lock it refuses on.
LockStepRefreshesOnConflict(locks, repo, t) ==
  LET hits == {l \in locks : l.repo = repo}
      fresh == [repo |-> repo, expiresAt |-> t + INDEX_LOCK_TIMEOUT_MS]
  IN IF Cardinality(hits) > 1 THEN [threw |-> TRUE, status |-> 500, locks |-> locks]
     ELSE IF hits = {} THEN [threw |-> FALSE, status |-> 200, locks |-> locks \cup {fresh}]
     ELSE LET existingLock == CHOOSE l \in hits : TRUE
          IN [threw |-> FALSE,
              status |-> IF existingLock.expiresAt > t THEN 409 ELSE 200,
              locks |-> (locks \ {existingLock}) \cup {fresh}]

\* LockStep that inserts a fresh row beside the expired one it found.
LockStepInsertsOverExpired(locks, repo, t) ==
  LET hits == {l \in locks : l.repo = repo}
      fresh == [repo |-> repo, expiresAt |-> t + INDEX_LOCK_TIMEOUT_MS]
  IN IF Cardinality(hits) > 1 THEN [threw |-> TRUE, status |-> 500, locks |-> locks]
     ELSE IF hits = {} THEN [threw |-> FALSE, status |-> 200, locks |-> locks \cup {fresh}]
     ELSE LET existingLock == CHOOSE l \in hits : TRUE
          IN IF existingLock.expiresAt > t
             THEN [threw |-> FALSE, status |-> 409, locks |-> locks]
             ELSE [threw |-> FALSE, status |-> 200, locks |-> locks \cup {fresh}]

\* Lines 520-543: refuse with 409 when the key's lock has expiresAt > now,
\* else patch the expired row or insert a new one.
LockStep(locks, repo, t) ==
  LET hits == {l \in locks : l.repo = repo}
  IN IF Cardinality(hits) > 1 THEN [threw |-> TRUE, status |-> 500, locks |-> locks]
     ELSE IF hits = {}
     THEN [threw |-> FALSE, status |-> 200,
           locks |-> locks \cup {[repo |-> repo, expiresAt |-> t + INDEX_LOCK_TIMEOUT_MS]}]
     ELSE LET existingLock == CHOOSE l \in hits : TRUE
          IN IF existingLock.expiresAt > t
             THEN [threw |-> FALSE, status |-> 409, locks |-> locks]
             ELSE [threw |-> FALSE, status |-> 200,
                   locks |-> (locks \ {existingLock})
                               \cup {[repo |-> repo, expiresAt |-> t + INDEX_LOCK_TIMEOUT_MS]}]

\* AcquireIndexPermit whose refusals write nothing.
AcquireIndexPermitRefusesClean(locks, buckets, repo, requester, skipRateLimit, t) ==
  LET unchanged == [locks |-> locks, buckets |-> buckets]
      pruned    == PruneBuckets(buckets, t)
      rate      == IF skipRateLimit
                   THEN [threw |-> FALSE, limitedBy |-> 0, buckets |-> pruned]
                   ELSE RateLimit(pruned, repo, requester, t)
      lock      == LockStep(PruneLocks(locks, t), repo, t)
  IN IF repo = "" \/ requester = "" THEN [status |-> 400, limitedBy |-> 0] @@ unchanged
     ELSE IF rate.threw \/ (rate.limitedBy = 0 /\ lock.threw)
     THEN [status |-> 500, limitedBy |-> 0] @@ unchanged
     ELSE IF rate.limitedBy # 0
     THEN [status |-> 429, limitedBy |-> rate.limitedBy] @@ unchanged
     ELSE IF lock.status = 409 THEN [status |-> 409, limitedBy |-> 0] @@ unchanged
     ELSE [status |-> lock.status, limitedBy |-> 0, locks |-> lock.locks, buckets |-> rate.buckets]

\* AcquireIndexPermit that counts the attempts of every caller.
AcquireIndexPermitIgnoresSkip(locks, buckets, repo, requester, skipRateLimit, t) ==
  LET unchanged == [locks |-> locks, buckets |-> buckets]
      prunedL   == PruneLocks(locks, t)
      rate      == RateLimit(PruneBuckets(buckets, t), repo, requester, t)
      lock      == LockStep(prunedL, repo, t)
  IN IF repo = "" THEN [status |-> 400, limitedBy |-> 0] @@ unchanged
     ELSE IF requester = "" THEN [status |-> 400, limitedBy |-> 0] @@ unchanged
     ELSE IF rate.threw THEN [status |-> 500, limitedBy |-> 0] @@ unchanged
     ELSE IF rate.limitedBy # 0
     THEN [status |-> 429, limitedBy |-> rate.limitedBy, locks |-> prunedL, buckets |-> rate.buckets]
     ELSE IF lock.threw THEN [status |-> 500, limitedBy |-> 0] @@ unchanged
     ELSE [status |-> lock.status, limitedBy |-> 0, locks |-> lock.locks, buckets |-> rate.buckets]

\* The whole mutation.  A mutation that returns commits its writes, also when
\* it returns ok: false; one that throws commits nothing.
\* status 200 stands for { ok: true }.
AcquireIndexPermit(locks, buckets, repo, requester, skipRateLimit, t) ==
  LET unchanged == [locks |-> locks, buckets |-> buckets]
      pruned    == PruneBuckets(buckets, t)
      prunedL   == PruneLocks(locks, t)
      rate      == IF skipRateLimit
                   THEN [threw |-> FALSE, limitedBy |-> 0, buckets |-> pruned]
                   ELSE RateLimit(pruned, repo, requester, t)
      lock      == LockStep(prunedL, repo, t)
  IN IF repo = "" THEN [status |-> 400, limitedBy |-> 0] @@ unchanged
     ELSE IF requester = "" THEN [status |-> 400, limitedBy |-> 0] @@ unchanged
     ELSE IF rate.threw THEN [status |-> 500, limitedBy |-> 0] @@ unchanged
     ELSE IF rate.limitedBy # 0
     THEN [status |-> 429, limitedBy |-> rate.limitedBy, locks |-> prunedL, buckets |-> rate.buckets]
     ELSE IF lock.threw THEN [status |-> 500, limitedBy |-> 0] @@ unchanged
     ELSE [status |-> lock.status, limitedBy |-> 0, locks |-> lock.locks, buckets |-> rate.buckets]

(***************************************************************************)
(* releaseRepoIndexLock (src/unnamed/part_010, lines 547-565).             *)
(***************************************************************************)
\* .unique() throws when two rows carry the key; then nothing is deleted.
ReleaseRepoIndexLock(locks, repo) ==
  LET hits == {l \in locks : l.repo = repo}
  IN IF repo = "" \/ Cardinality(hits) > 1 THEN locks
     ELSE locks \ hits

(***************************************************************************)
(* Strings.  A string the code takes apart is a sequence of one-character  *)
(* strings; an absent optional value is the marker below, which no such    *)
(* sequence equals.                                                        *)
(***************************************************************************)
undefined == <<"undefined">>
null == <<"null">>

\* What \s and String.prototype.trim treat as white space, and what "." in a
\* regular expression does not match (of the characters of the model).
WhiteSpace == {" ", "\t", "\n", "\r"}
LineTerminators == {"\n", "\r"}

github == <<"g", "i", "t", "h", "u", "b">>

\* String.prototype.toLowerCase on the letters of the model.
LowerChar(c) ==
  CASE c = "A" -> "a"
    [] c = "B" -> "b"
    [] c = "G" -> "g"
    [] c = "O" -> "o"
    [] c = "R" -> "r"
    [] OTHER -> c

ToLowerCase(s) == [i \in 1..Len(s) |-> LowerChar(s[i])]

RECURSIVE TrimStart(_)
TrimStart(s) ==
  IF s # <<>> /\ Head(s) \in WhiteSpace THEN TrimStart(Tail(s)) ELSE s

RECURSIVE TrimEnd(_)
TrimEnd(s) ==
  IF s # <<>> /\ s[Len(s)] \in WhiteSpace THEN TrimEnd(SubSeq(s, 1, Len(s) - 1)) ELSE s

\* String.prototype.trim.
Trim(s) == TrimEnd(TrimStart(s))

\* replace(/^@/, ""): one leading "@" is removed, not every one.
StripLeadingAt(s) == IF s # <<>> /\ Head(s) = "@" THEN Tail(s) ELSE s

\* The first place of a character in a string, 0 when it has none.
IndexOf(s, c) ==
  IF \E i \in 1..Len(s) : s[i] = c
  THEN Min({i \in 1..Len(s) : s[i] = c})
  ELSE 0

\* String.prototype.split(sep) for a one-character separator.
RECURSIVE Split(_, _)
Split(s, sep) ==
  LET i == IndexOf(s, sep)
  IN IF i = 0 THEN <<s>>
     ELSE <<SubSeq(s, 1, i - 1)>> \o Split(SubSeq(s, i + 1, Len(s)), sep)

\* String.prototype.split(sep, limit): the first limit pieces of the full
\* split; what follows them is dropped.
SplitLimit(s, sep, limit) ==
  LET all == Split(s, sep)
  IN SubSeq(all, 1, Min({Len(all), limit}))

\* input.split(/\r?\n/): a "\r" right before a "\n" belongs to the separator.
SplitLines(input) ==
  LET pieces == Split(input, "\n")
  IN [i \in 1..Len(pieces) |->
        IF i < Len(pieces) /\ pieces[i] # <<>> /\ pieces[i][Len(pieces[i])] = "\r"
        THEN SubSeq(pieces[i], 1, Len(pieces[i]) - 1)
        ELSE pieces[i]]

\* localeCompare on handles.  The handles of the model are made of these
\* characters, on which collation order and code-point order agree.
Collation == <<":", "@", "a", "b", "g", "h", "i", "t", "u">>

CharRank(c) == CHOOSE i \in 1..Len(Collation) : Collation[i] = c

RECURSIVE LocaleCompare(_, _)
LocaleCompare(a, b) ==
  IF a = <<>> /\ b = <<>> THEN 0
  ELSE IF a = <<>> THEN -1
  ELSE IF b = <<>> THEN 1
  ELSE IF CharRank(Head(a)) < CharRank(Head(b)) THEN -1
  ELSE IF CharRank(Head(a)) > CharRank(Head(b)) THEN 1
  ELSE LocaleCompare(Tail(a), Tail(b))

\* The handles of a set in localeCompare order.
RECURSIVE SortHandles(_)
SortHandles(S) ==
  IF S = {} THEN <<>>
  ELSE LET first == CHOOSE h \in S : \A k \in S : LocaleCompare(h, k) <= 0
       IN <<first>> \o SortHandles(S \ {first})

(***************************************************************************)
(* Map<string, V> as the sequence of its [key, value] pairs in insertion   *)
(* order: set() on a present key replaces the value in place.              *)
(***************************************************************************)
MapHas(m, k) == \E i \in 1..Len(m) : m[i].key = k

MapGet(m, k) == m[CHOOSE i \in 1..Len(m) : m[i].key = k].value

MapSet(m, k, v) ==
  IF MapHas(m, k)
  THEN [i \in 1..Len(m) |-> IF m[i].key = k THEN [key |-> k, value |-> v] ELSE m[i]]
  ELSE Append(m, [key |-> k, value |-> v])

MapDelete(m, k) == SelectSeq(m, LAMBDA pair : pair.key # k)

MapKeys(m) == {m[i].key : i \in 1..Len(m)}

MapValues(m) == [i \in 1..Len(m) |-> m[i].value]

\* new Map(entries.map((entry) => [entry.handle, entry])).
RECURSIVE MapByHandle(_)
MapByHandle(list) ==
  IF list = <<>> THEN <<>>
  ELSE LET last == list[Len(list)]
       IN MapSet(MapByHandle(SubSeq(list, 1, Len(list) - 1)), last.handle, last)

(***************************************************************************)
(* parseTrustdown (src/unnamed/part_010, lines 134-180).                   *)
(***************************************************************************)
\* The longest prefix of s of characters outside (or inside) a set.
RECURSIVE PrefixOutside(_, _)
PrefixOutside(s, chars) ==
  IF s = <<>> \/ Head(s) \in chars THEN 0 ELSE 1 + PrefixOutside(Tail(s), chars)

RECURSIVE PrefixInside(_, _)
PrefixInside(s, chars) ==
  IF s = <<>> \/ Head(s) \notin chars THEN 0 ELSE 1 + PrefixInside(Tail(s), chars)

\* remainder.match(/^(\S+)(?:\s+(.+))?$/) (line 149).  \S+ takes the longest
\* run without white space; what follows is white space and then the second
\* group, which reaches the end and holds no line terminator.
MatchRemainder(remainder) ==
  LET n == PrefixOutside(remainder, WhiteSpace)
      rest == SubSeq(remainder, n + 1, Len(remainder))
      k == PrefixInside(rest, WhiteSpace)
      tail == SubSeq(rest, k + 1, Len(rest))
  IN IF n = 0 THEN [matched |-> FALSE, handlePart |-> <<>>, details |-> undefined]
     ELSE IF rest = <<>>
     THEN [matched |-> TRUE, handlePart |-> SubSeq(remainder, 1, n), details |-> undefined]
     ELSE IF tail = <<>> \/ \E i \in 1..Len(tail) : tail[i] \in LineTerminators
     THEN [matched |-> FALSE, handlePart |-> <<>>, details |-> undefined]
     ELSE [matched |-> TRUE, handlePart |-> SubSeq(remainder, 1, n), details |-> tail]

\* ParseLine that reads every accepted line as a vouch.
ParseLineAlwaysVouch(rawLine) ==
  LET line == Trim(rawLine)
      skip == [ok |-> FALSE, key |-> <<>>, entry |-> <<>>]
  IN IF line = <<>> \/ Head(line) = "#" THEN skip
     ELSE
       LET isDenounce == Head(line) = "-"
           remainder == IF isDenounce THEN Trim(Tail(line)) ELSE line
       IN IF remainder = <<>> THEN skip
          ELSE
            LET match == MatchRemainder(remainder)
                details == IF match.details = undefined THEN undefined ELSE Trim(match.details)
                split == SplitLimit(match.handlePart, ":", 2)
                hasPlatform == Len(split) = 2
                platform == ToLowerCase(Trim(IF hasPlatform THEN split[1] ELSE github))
                usernameRaw == StripLeadingAt(Trim(IF hasPlatform THEN split[2] ELSE split[1]))
                username == ToLowerCase(usernameRaw)
            IN IF ~match.matched \/ platform = <<>> \/ username = <<>> THEN skip
               ELSE [ok |-> TRUE,
                     key |-> platform \o <<":">> \o username,
                     entry |-> [platform |-> platform,
                                username |-> username,
                                type |-> "vouch",
                                details |-> IF details = <<>> THEN undefined ELSE details]]

\* Lines 138-172 for one line: the entry it yields, or nothing.
ParseLine(rawLine) ==
  LET line == Trim(rawLine)
      skip == [ok |-> FALSE, key |-> <<>>, entry |-> <<>>]
  IN IF line = <<>> \/ Head(line) = "#" THEN skip
     ELSE
       LET isDenounce == Head(line) = "-"
           remainder == IF isDenounce THEN Trim(Tail(line)) ELSE line
       IN IF remainder = <<>> THEN skip
          ELSE
            LET match == MatchRemainder(remainder)
                details == IF match.details = undefined THEN undefined ELSE Trim(match.details)
                split == SplitLimit(match.handlePart, ":", 2)
                hasPlatform == Len(split) = 2
                platform == ToLowerCase(Trim(IF hasPlatform THEN split[1] ELSE github))
                usernameRaw == StripLeadingAt(Trim(IF hasPlatform THEN split[2] ELSE split[1]))
                username == ToLowerCase(usernameRaw)
            IN IF ~match.matched \/ platform = <<>> \/ username = <<>> THEN skip
               ELSE [ok |-> TRUE,
                     key |-> platform \o <<":">> \o username,
                     entry |-> [platform |-> platform,
                                username |-> username,
                                type |-> IF isDenounce THEN "denounce" ELSE "vouch",
                                details |-> IF details = <<>> THEN undefined ELSE details]]

\* ParseRecords in which the first line of a key stays.
RECURSIVE ParseRecordsFirstWins(_)
ParseRecordsFirstWins(lines) ==
  IF lines = <<>> THEN <<>>
  ELSE LET before == ParseRecordsFirstWins(SubSeq(lines, 1, Len(lines) - 1))
           parsed == ParseLine(lines[Len(lines)])
       IN IF parsed.ok /\ ~MapHas(before, parsed.key)
          THEN MapSet(before, parsed.key, parsed.entry) ELSE before

\* Lines 135-173: the records map after the lines, a later line of a key
\* replacing the earlier one.
RECURSIVE ParseRecords(_)
ParseRecords(lines) ==
  IF lines = <<>> THEN <<>>
  ELSE LET before == ParseRecords(SubSeq(lines, 1, Len(lines) - 1))
           parsed == ParseLine(lines[Len(lines)])
       IN IF parsed.ok THEN MapSet(before, parsed.key, parsed.entry) ELSE before

\* Lines 175-179: the records in localeCompare order of their keys.
ParseTrustdown(input) ==
  LET records == ParseRecords(SplitLines(input))
      keys == SortHandles(MapKeys(records))
  IN [i \in 1..Len(keys) |-> MapGet(records, keys[i])]

(***************************************************************************)
(* Entry normalisation, the audit diff and the leaderboard deltas          *)
(* (src/unnamed/part_010, lines 182-323).                                  *)
(***************************************************************************)
\* Lines 182-191.
NormalizeEntry(entry) ==
  LET platform == ToLowerCase(Trim(entry.platform))
      username == StripLeadingAt(ToLowerCase(Trim(entry.username)))
  IN [platform |-> platform,
      username |-> username,
      handle |-> platform \o <<":">> \o username,
      type |-> entry.type,
      details |-> entry.details]

\* Lines 193-205: a stored row goes through normalizeEntry once more.
NormalizeStoredEntry(entry) ==
  NormalizeEntry([platform |-> entry.platform, username |-> entry.username,
                  type |-> entry.type, details |-> entry.details])

\* ChangeOf that compares the types only.
ChangeOfTypeOnly(previousMap, nextMap, handle) ==
  LET hasBefore == MapHas(previousMap, handle)
      hasAfter == MapHas(nextMap, handle)
      before == MapGet(previousMap, handle)
      after == MapGet(nextMap, handle)
  IN IF ~hasBefore /\ hasAfter
     THEN <<[platform |-> after.platform, username |-> after.username, handle |-> after.handle,
             action |-> "added", beforeType |-> "undefined", afterType |-> after.type,
             beforeDetails |-> undefined, afterDetails |-> after.details]>>
     ELSE IF hasBefore /\ ~hasAfter
     THEN <<[platform |-> before.platform, username |-> before.username, handle |-> before.handle,
             action |-> "removed", beforeType |-> before.type, afterType |-> "undefined",
             beforeDetails |-> before.details, afterDetails |-> undefined]>>
     ELSE IF ~hasBefore \/ ~hasAfter THEN <<>>
     ELSE IF before.type # after.type
     THEN <<[platform |-> after.platform, username |-> after.username, handle |-> after.handle,
             action |-> "changed", beforeType |-> before.type, afterType |-> after.type,
             beforeDetails |-> before.details, afterDetails |-> after.details]>>
     ELSE <<>>

\* ChangeOf whose removed record leaves the details out.
ChangeOfRemovedWithoutDetails(previousMap, nextMap, handle) ==
  LET hasBefore == MapHas(previousMap, handle)
      hasAfter == MapHas(nextMap, handle)
      before == MapGet(previousMap, handle)
      after == MapGet(nextMap, handle)
  IN IF ~hasBefore /\ hasAfter
     THEN <<[platform |-> after.platform, username |-> after.username, handle |-> after.handle,
             action |-> "added", beforeType |-> "undefined", afterType |-> after.type,
             beforeDetails |-> undefined, afterDetails |-> after.details]>>
     ELSE IF hasBefore /\ ~hasAfter
     THEN <<[platform |-> before.platform, username |-> before.username, handle |-> before.handle,
             action |-> "removed", beforeType |-> before.type, afterType |-> "undefined",
             beforeDetails |-> undefined, afterDetails |-> undefined]>>
     ELSE IF ~hasBefore \/ ~hasAfter THEN <<>>
     ELSE IF before.type # after.type \/ before.details # after.details
     THEN <<[platform |-> after.platform, username |-> after.username, handle |-> after.handle,
             action |-> "changed", beforeType |-> before.type, afterType |-> after.type,
             beforeDetails |-> before.details, afterDetails |-> after.details]>>
     ELSE <<>>

\* Lines 215-263 for one handle: the change it yields, or nothing.
ChangeOf(previousMap, nextMap, handle) ==
  LET hasBefore == MapHas(previousMap, handle)
      hasAfter == MapHas(nextMap, handle)
      before == MapGet(previousMap, handle)
      after == MapGet(nextMap, handle)
  IN IF ~hasBefore /\ hasAfter
     THEN <<[platform |-> after.platform, username |-> after.username, handle |-> after.handle,
             action |-> "added", beforeType |-> "undefined", afterType |-> after.type,
             beforeDetails |-> undefined, afterDetails |-> after.details]>>
     ELSE IF hasBefore /\ ~hasAfter
     THEN <<[platform |-> before.platform, username |-> before.username, handle |-> before.handle,
             action |-> "removed", beforeType |-> before.type, afterType |-> "undefined",
             beforeDetails |-> before.details, afterDetails |-> undefined]>>
     ELSE IF ~hasBefore \/ ~hasAfter THEN <<>>
     ELSE IF before.type # after.type \/ before.details # after.details
     THEN <<[platform |-> after.platform, username |-> after.username, handle |-> after.handle,
             action |-> "changed", beforeType |-> before.type, afterType |-> after.type,
             beforeDetails |-> before.details, afterDetails |-> after.details]>>
     ELSE <<>>

RECURSIVE ChangesOver(_, _, _)
ChangesOver(previousMap, nextMap, handles) ==
  IF handles = <<>> THEN <<>>
  ELSE ChangeOf(previousMap, nextMap, Head(handles))
         \o ChangesOver(previousMap, nextMap, Tail(handles))

\* computeAuditChanges that walks the handles as the maps list them, unsorted.
ComputeAuditChangesUnsorted(previous, next) ==
  LET previousMap == MapByHandle(previous)
      nextMap == MapByHandle(next)
      previousKeys == [i \in 1..Len(previousMap) |-> previousMap[i].key]
      nextKeys == [i \in 1..Len(nextMap) |-> nextMap[i].key]
      handles == previousKeys \o SelectSeq(nextKeys, LAMBDA key : ~MapHas(previousMap, key))
  IN ChangesOver(previousMap, nextMap, handles)

\* Lines 207-266.
ComputeAuditChanges(previous, next) ==
  LET previousMap == MapByHandle(previous)
      nextMap == MapByHandle(next)
      handles == SortHandles(MapKeys(previousMap) \cup MapKeys(nextMap))
  IN ChangesOver(previousMap, nextMap, handles)

\* Lines 272-307: one change added to the delta of its handle.
ApplyChange(current, change) ==
  LET vouchedUp == IF change.action # "removed" /\ change.afterType = "vouch" THEN 1 ELSE 0
      denouncedUp == IF change.action # "removed" /\ change.afterType = "denounce" THEN 1 ELSE 0
      vouchedDown == IF change.action # "added" /\ change.beforeType = "vouch" THEN 1 ELSE 0
      denouncedDown == IF change.action # "added" /\ change.beforeType = "denounce" THEN 1 ELSE 0
      repositoriesStep == CASE change.action = "added" -> 1
                            [] change.action = "removed" -> -1
                            [] OTHER -> 0
  IN [current EXCEPT !.vouchedDelta = @ + vouchedUp - vouchedDown,
                     !.denouncedDelta = @ + denouncedUp - denouncedDown,
                     !.repositoriesDelta = @ + repositoriesStep]

RECURSIVE DeltasOver(_)
DeltasOver(changes) ==
  IF changes = <<>> THEN <<>>
  ELSE LET deltas == DeltasOver(SubSeq(changes, 1, Len(changes) - 1))
           change == changes[Len(changes)]
           current == IF MapHas(deltas, change.handle) THEN MapGet(deltas, change.handle)
                      ELSE [platform |-> change.platform, username |-> change.username,
                            handle |-> change.handle, vouchedDelta |-> 0,
                            denouncedDelta |-> 0, repositoriesDelta |-> 0]
       IN MapSet(deltas, change.handle, ApplyChange(current, change))

\* computeLeaderboardDeltas that returns the deltas that are all zero as well.
ComputeLeaderboardDeltasUnfiltered(changes) == MapValues(DeltasOver(changes))

\* Lines 268-316.
ComputeLeaderboardDeltas(changes) ==
  SelectSeq(MapValues(DeltasOver(changes)),
            LAMBDA delta : delta.vouchedDelta # 0 \/ delta.denouncedDelta # 0
                             \/ delta.repositoriesDelta # 0)

\* Lines 318-323: SHA-256, as a digest that tells any two inputs apart.
Sha256Hex(input) == <<"sha256", input>>

(***************************************************************************)
(* planEntryReconciliation (src/convex/entry-reconcile-plan.ts, 39-107).   *)
(* An existing entry carries id, its place in the entries table.           *)
(***************************************************************************)
\* DedupeExisting that reports no duplicate.
DedupeExistingKeepsAll(existingEntries) ==
  LET places == [i \in 1..Len(existingEntries) |-> i]
      first == SelectSeq(places, LAMBDA i : \A j \in 1..(i - 1) :
                                     existingEntries[j].handle # existingEntries[i].handle)
  IN [byHandle |-> [k \in 1..Len(first) |->
                      [key |-> existingEntries[first[k]].handle,
                       value |-> existingEntries[first[k]]]],
      duplicateDeleteIds |-> <<>>]

\* DedupeExisting with the last row of a handle as the survivor.
DedupeExistingKeepsLast(existingEntries) ==
  LET places == [i \in 1..Len(existingEntries) |-> i]
      isLast(i) == \A j \in (i + 1)..Len(existingEntries) :
                      existingEntries[j].handle # existingEntries[i].handle
      last == SelectSeq(places, LAMBDA i : isLast(i))
      others == SelectSeq(places, LAMBDA i : ~isLast(i))
  IN [byHandle |-> [k \in 1..Len(last) |->
                      [key |-> existingEntries[last[k]].handle,
                       value |-> existingEntries[last[k]]]],
      duplicateDeleteIds |-> [k \in 1..Len(others) |-> existingEntries[others[k]].id]]

\* Lines 45-56: the first row of each handle, and the ids of the others.
RECURSIVE DedupeExisting(_)
DedupeExisting(existingEntries) ==
  IF existingEntries = <<>> THEN [byHandle |-> <<>>, duplicateDeleteIds |-> <<>>]
  ELSE LET before == DedupeExisting(SubSeq(existingEntries, 1, Len(existingEntries) - 1))
           existing == existingEntries[Len(existingEntries)]
       IN IF MapHas(before.byHandle, existing.handle)
          THEN [before EXCEPT !.duplicateDeleteIds = Append(@, existing.id)]
          ELSE [before EXCEPT !.byHandle = MapSet(@, existing.handle, existing)]

\* NeedsPatch that looks at what the row says and not at where it is filed.
NeedsPatchContentOnly(existing, next, expectedRepoSlug, expectedSnapshotId) ==
  \/ existing.platform # next.platform
  \/ existing.username # next.username
  \/ existing.handle # next.handle
  \/ existing.type # next.type
  \/ existing.details # next.details

\* NeedsPatch that rewrites every surviving row.
NeedsPatchAlways(existing, next, expectedRepoSlug, expectedSnapshotId) == TRUE

\* Lines 74-81.
NeedsPatch(existing, next, expectedRepoSlug, expectedSnapshotId) ==
  \/ existing.platform # next.platform
  \/ existing.username # next.username
  \/ existing.handle # next.handle
  \/ existing.type # next.type
  \/ existing.details # next.details
  \/ existing.snapshotId # expectedSnapshotId
  \/ existing.repoSlug # expectedRepoSlug

\* Lines 65-99 over the deduplicated rows, in their order.
RECURSIVE PlanOver(_, _, _, _)
PlanOver(dedupedExisting, nextByHandle, expectedRepoSlug, expectedSnapshotId) ==
  IF dedupedExisting = <<>>
  THEN [deleteIds |-> <<>>, patches |-> <<>>, nextByHandle |-> nextByHandle]
  ELSE
    LET before == PlanOver(SubSeq(dedupedExisting, 1, Len(dedupedExisting) - 1),
                           nextByHandle, expectedRepoSlug, expectedSnapshotId)
        existing == dedupedExisting[Len(dedupedExisting)]
    IN IF ~MapHas(before.nextByHandle, existing.handle)
       THEN [before EXCEPT !.deleteIds = Append(@, existing.id)]
       ELSE
         LET next == MapGet(before.nextByHandle, existing.handle)
             patch == [id |-> existing.id,
                       patch |-> [platform |-> next.platform, username |-> next.username,
                                  handle |-> next.handle, type |-> next.type,
                                  details |-> next.details,
                                  snapshotId |-> expectedSnapshotId,
                                  repoSlug |-> expectedRepoSlug]]
         IN [deleteIds |-> before.deleteIds,
             patches |-> IF NeedsPatch(existing, next, expectedRepoSlug, expectedSnapshotId)
                         THEN Append(before.patches, patch) ELSE before.patches,
             nextByHandle |-> MapDelete(before.nextByHandle, existing.handle)]

\* Lines 39-107.
PlanEntryReconciliation(existingEntries, nextEntries, expectedRepoSlug, expectedSnapshotId) ==
  LET deduped == DedupeExisting(existingEntries)
      plan == PlanOver(MapValues(deduped.byHandle), MapByHandle(nextEntries),
                       expectedRepoSlug, expectedSnapshotId)
  IN [duplicateDeleteIds |-> deduped.duplicateDeleteIds,
      deleteIds |-> plan.deleteIds,
      patches |-> plan.patches,
      inserts |-> MapValues(plan.nextByHandle)]

(***************************************************************************)
(* The storage mutations (src/unnamed/part_010, lines 567-920, 1645-1706). *)
(* A table other than leaderboardRows is the sequence of its rows in       *)
(* creation order and a row's place is its _id (repositories, snapshots,   *)
(* auditBlocks and auditChanges never lose a row; an entries row is        *)
(* addressed within one mutation only).  db is the record of the tables.   *)
(* Of a repositories row the model keeps slug, status, lastError,          *)
(* lastIndexedAt and the three counts; an absent number is -1 and an       *)
(* absent string "undefined".                                              *)
(***************************************************************************)
\* The places of the rows of a table that belong to a repository, ascending.
RowIdsOfRepo(table, repoId) ==
  SelectSeq([i \in 1..Len(table) |-> i], LAMBDA i : table[i].repoId = repoId)

\* query("repositories").withIndex("by_slug", eq(slug)): the matching ids.
RepoIdsBySlug(repos, slug) == {i \in 1..Len(repos) : repos[i].slug = slug}

\* withIndex("by_repo_and_indexed").order("desc").first(): the id of the
\* newest snapshot of a repository, 0 when it has none.
LatestSnapshotId(snaps, repoId) ==
  LET ids == {i \in 1..Len(snaps) : snaps[i].repoId = repoId}
      newest == {i \in ids : \A j \in ids : snaps[j].indexedAt <= snaps[i].indexedAt}
  IN IF ids = {} THEN 0 ELSE Max(newest)

\* The highest block of the whole table, whichever repository it belongs to.
PreviousBlockIdOfTable(blocks, repoId) ==
  LET ids == 1..Len(blocks)
      highest == {i \in ids : \A j \in ids : blocks[j].height <= blocks[i].height}
  IN IF ids = {} THEN 0 ELSE Max(highest)

\* withIndex("by_repo_and_height").order("desc").first(): the id of the
\* highest block of a repository, 0 when it has none.
PreviousBlockId(blocks, repoId) ==
  LET ids == {i \in 1..Len(blocks) : blocks[i].repoId = repoId}
      highest == {i \in ids : \A j \in ids : blocks[j].height <= blocks[i].height}
  IN IF ids = {} THEN 0 ELSE Max(highest)

\* Lines 567-610.  The mutation throws when by_slug is not unique.
SetRepositoryStatus(db, slug, status, lastError, t) ==
  LET hits == RepoIdsBySlug(db.repositories, slug)
      existing == CHOOSE i \in hits : TRUE
  IN IF Cardinality(hits) > 1 THEN [threw |-> TRUE, db |-> db]
     ELSE IF hits # {}
     THEN [threw |-> FALSE,
           db |-> [db EXCEPT !.repositories[existing].status = status,
                             !.repositories[existing].lastError = lastError,
                             !.repositories[existing].lastIndexedAt = t]]
     ELSE [threw |-> FALSE,
           db |-> [db EXCEPT !.repositories =
                     Append(@, [slug |-> slug, status |-> status, lastError |-> lastError,
                                lastIndexedAt |-> t, entryCount |-> -1,
                                vouchedCount |-> -1, denouncedCount |-> -1])]]

\* Lines 612-638.
GetRepositorySnapshotMeta(db, slug) ==
  LET hits == RepoIdsBySlug(db.repositories, slug)
      repoId == CHOOSE i \in hits : TRUE
      snapshotId == LatestSnapshotId(db.snapshots, repoId)
  IN IF Cardinality(hits) > 1 THEN [threw |-> TRUE, found |-> FALSE]
     ELSE IF hits = {} THEN [threw |-> FALSE, found |-> FALSE]
     ELSE [threw |-> FALSE, found |-> TRUE,
           repoStatus |-> db.repositories[repoId].status,
           commitSha |-> IF snapshotId = 0 THEN "null" ELSE db.snapshots[snapshotId].commitSha,
           filePath |-> IF snapshotId = 0 THEN "null" ELSE db.snapshots[snapshotId].filePath]

\* Lines 703-708: the first stored row of each handle.
RECURSIVE UniqueExistingByHandle(_)
UniqueExistingByHandle(existingEntries) ==
  IF existingEntries = <<>> THEN <<>>
  ELSE LET before == UniqueExistingByHandle(SubSeq(existingEntries, 1, Len(existingEntries) - 1))
           existingEntry == existingEntries[Len(existingEntries)]
       IN IF MapHas(before, existingEntry.handle) THEN before
          ELSE MapSet(before, existingEntry.handle, existingEntry)

\* Lines 765-796: the plan carried out on the entries table.
ApplyReconciliationPlan(table, plan, repoId, repoSlug, snapshotId) ==
  LET deleted == {plan.duplicateDeleteIds[k] : k \in 1..Len(plan.duplicateDeleteIds)}
                   \cup {plan.deleteIds[k] : k \in 1..Len(plan.deleteIds)}
      patchOf(i) == CHOOSE k \in 1..Len(plan.patches) : plan.patches[k].id = i
      patched == [i \in 1..Len(table) |->
                    IF \E k \in 1..Len(plan.patches) : plan.patches[k].id = i
                    THEN LET patch == plan.patches[patchOf(i)].patch
                         IN [table[i] EXCEPT !.platform = patch.platform,
                                             !.username = patch.username,
                                             !.handle = patch.handle,
                                             !.type = patch.type,
                                             !.details = patch.details,
                                             !.snapshotId = snapshotId,
                                             !.repoSlug = repoSlug]
                    ELSE table[i]]
      keptIds == SelectSeq([i \in 1..Len(table) |-> i], LAMBDA i : i \notin deleted)
      inserted == [k \in 1..Len(plan.inserts) |->
                     [repoId |-> repoId, repoSlug |-> repoSlug, snapshotId |-> snapshotId,
                      platform |-> plan.inserts[k].platform,
                      username |-> plan.inserts[k].username,
                      handle |-> plan.inserts[k].handle,
                      type |-> plan.inserts[k].type,
                      details |-> plan.inserts[k].details]]
  IN [k \in 1..Len(keptIds) |-> patched[keptIds[k]]] \o inserted

\* ApplyLeaderboardDelta that keeps the row of a handle whose counts fell to
\* zero.
ApplyLeaderboardDeltaKeepsRow(rows, delta, t) ==
  LET hits == {row \in rows : row.handle = delta.handle}
      existing == CHOOSE row \in hits : TRUE
      vouchedCount == Max({0, (IF hits = {} THEN 0 ELSE existing.vouchedCount) + delta.vouchedDelta})
      denouncedCount == Max({0, (IF hits = {} THEN 0 ELSE existing.denouncedCount) + delta.denouncedDelta})
      repositoryCount == Max({0, (IF hits = {} THEN 0 ELSE existing.repositories) + delta.repositoriesDelta})
  IN IF Cardinality(hits) > 1 THEN [threw |-> TRUE, rows |-> rows]
     ELSE [threw |-> FALSE,
           rows |-> (rows \ hits) \cup
                      {[platform |-> delta.platform, username |-> delta.username,
                        handle |-> delta.handle, vouchedCount |-> vouchedCount,
                        denouncedCount |-> denouncedCount, repositories |-> repositoryCount,
                        score |-> vouchedCount - denouncedCount, updatedAt |-> t]}]

\* Lines 799-836 for one delta.  The mutation throws when by_handle is not
\* unique.
ApplyLeaderboardDelta(rows, delta, t) ==
  LET hits == {row \in rows : row.handle = delta.handle}
      existing == CHOOSE row \in hits : TRUE
      vouchedCount == Max({0, (IF hits = {} THEN 0 ELSE existing.vouchedCount) + delta.vouchedDelta})
      denouncedCount == Max({0, (IF hits = {} THEN 0 ELSE existing.denouncedCount) + delta.denouncedDelta})
      repositoryCount == Max({0, (IF hits = {} THEN 0 ELSE existing.repositories) + delta.repositoriesDelta})
      leaderboardPayload == [platform |-> delta.platform, username |-> delta.username,
                             handle |-> delta.handle, vouchedCount |-> vouchedCount,
                             denouncedCount |-> denouncedCount, repositories |-> repositoryCount,
                             score |-> vouchedCount - denouncedCount, updatedAt |-> t]
  IN IF Cardinality(hits) > 1 THEN [threw |-> TRUE, rows |-> rows]
     ELSE IF repositoryCount = 0 \/ (vouchedCount = 0 /\ denouncedCount = 0)
     THEN [threw |-> FALSE, rows |-> rows \ hits]
     ELSE [threw |-> FALSE, rows |-> (rows \ hits) \cup {leaderboardPayload}]

\* Lines 798-837.
RECURSIVE ApplyLeaderboardDeltas(_, _, _)
ApplyLeaderboardDeltas(rows, deltas, t) ==
  IF deltas = <<>> THEN [threw |-> FALSE, rows |-> rows]
  ELSE LET first == ApplyLeaderboardDelta(rows, Head(deltas), t)
       IN IF first.threw THEN first
          ELSE ApplyLeaderboardDeltas(first.rows, Tail(deltas), t)

\* NextAuditHeight with the blocks of every repository counted.
NextAuditHeightOfTable(blocks, previousBlockId) == Len(blocks) + 1

\* Line 848.
NextAuditHeight(blocks, previousBlockId) ==
  (IF previousBlockId = 0 THEN 0 ELSE blocks[previousBlockId].height) + 1

\* ShouldRecordAuditBlock without the genesis case.
ShouldRecordOnChangesOnly(previousBlockId, changes) == Len(changes) > 0

\* Line 841.
ShouldRecordAuditBlock(previousBlockId, changes) ==
  previousBlockId = 0 \/ Len(changes) > 0

\* "value ?? null" on an optional string, and on an optional text or hash.
StringOrNull(value) == IF value = "undefined" THEN "null" ELSE value
TextOrNull(value) == IF value = undefined THEN null ELSE value

\* SerializedBlock without the "?? null" of the change fields.
SerializedBlockKeepsUndefined(slug, auditHeight, previousHash, snapshotId, t, args, changes) ==
  <<slug, auditHeight, TextOrNull(previousHash), snapshotId, t, args.filePath, args.commitSha,
    StringOrNull(args.commitUrl), StringOrNull(args.sourceUrl),
    StringOrNull(args.commitActor), StringOrNull(args.commitTimestamp),
    [k \in 1..Len(changes) |->
       <<changes[k].handle, changes[k].action, changes[k].beforeType, changes[k].afterType,
         changes[k].beforeDetails, changes[k].afterDetails>>]>>

\* Lines 850-870: JSON.stringify of the block, as the values under its keys
\* in their order.
SerializedBlock(slug, auditHeight, previousHash, snapshotId, t, args, changes) ==
  <<slug, auditHeight, TextOrNull(previousHash), snapshotId, t, args.filePath, args.commitSha,
    StringOrNull(args.commitUrl), StringOrNull(args.sourceUrl),
    StringOrNull(args.commitActor), StringOrNull(args.commitTimestamp),
    [k \in 1..Len(changes) |->
       <<changes[k].handle, changes[k].action,
         StringOrNull(changes[k].beforeType), StringOrNull(changes[k].afterType),
         TextOrNull(changes[k].beforeDetails), TextOrNull(changes[k].afterDetails)>>]>>

CountAction(changes, action) ==
  Cardinality({k \in 1..Len(changes) : changes[k].action = action})

\* Lines 640-920.  args: [slug, commitSha, filePath, commitUrl, sourceUrl,
\* commitActor, commitTimestamp, entries].
ReplaceRepositorySnapshot(db, args, t) ==
  LET normalizedEntries == [i \in 1..Len(args.entries) |-> NormalizeEntry(args.entries[i])]
      vouchedCount == Cardinality({i \in 1..Len(normalizedEntries) :
                                     normalizedEntries[i].type = "vouch"})
      denouncedCount == Len(normalizedEntries) - vouchedCount
      hits == RepoIdsBySlug(db.repositories, args.slug)
      repoPayload == [slug |-> args.slug, status |-> "indexed", lastError |-> "undefined",
                      lastIndexedAt |-> t, entryCount |-> Len(normalizedEntries),
                      vouchedCount |-> vouchedCount, denouncedCount |-> denouncedCount]
      repoId == IF hits = {} THEN Len(db.repositories) + 1 ELSE CHOOSE i \in hits : TRUE
      repositoriesAfter == IF hits = {} THEN Append(db.repositories, repoPayload)
                           ELSE [db.repositories EXCEPT ![repoId] = repoPayload]
      existingIds == RowIdsOfRepo(db.entries, repoId)
      existingEntries == [k \in 1..Len(existingIds) |->
                            [id |-> existingIds[k],
                             snapshotId |-> db.entries[existingIds[k]].snapshotId,
                             repoSlug |-> db.entries[existingIds[k]].repoSlug,
                             platform |-> db.entries[existingIds[k]].platform,
                             username |-> db.entries[existingIds[k]].username,
                             handle |-> db.entries[existingIds[k]].handle,
                             type |-> db.entries[existingIds[k]].type,
                             details |-> db.entries[existingIds[k]].details]]
      uniqueExisting == MapValues(UniqueExistingByHandle(existingEntries))
      existingNormalizedEntries == [k \in 1..Len(uniqueExisting) |->
                                      NormalizeStoredEntry(uniqueExisting[k])]
      changes == ComputeAuditChanges(existingNormalizedEntries, normalizedEntries)
      leaderboardDeltas == ComputeLeaderboardDeltas(changes)
      previousBlockId == PreviousBlockId(db.auditBlocks, repoId)
      latestSnapshotId == LatestSnapshotId(db.snapshots, repoId)
      snapshotId == IF latestSnapshotId # 0 THEN latestSnapshotId ELSE Len(db.snapshots) + 1
      snapshotsAfter == IF latestSnapshotId # 0
                        THEN [db.snapshots EXCEPT ![snapshotId].commitSha = args.commitSha,
                                                  ![snapshotId].filePath = args.filePath,
                                                  ![snapshotId].indexedAt = t]
                        ELSE Append(db.snapshots, [repoId |-> repoId, commitSha |-> args.commitSha,
                                                   filePath |-> args.filePath, indexedAt |-> t])
      reconciliationPlan == PlanEntryReconciliation(existingEntries, normalizedEntries,
                                                    args.slug, snapshotId)
      entriesAfter == ApplyReconciliationPlan(db.entries, reconciliationPlan, repoId,
                                              args.slug, snapshotId)
      leaderboard == ApplyLeaderboardDeltas(db.leaderboardRows, leaderboardDeltas, t)
      shouldRecordAuditBlock == ShouldRecordAuditBlock(previousBlockId, changes)
      auditHeight == NextAuditHeight(db.auditBlocks, previousBlockId)
      previousHash == IF previousBlockId = 0 THEN undefined
                      ELSE db.auditBlocks[previousBlockId].blockHash
      auditBlockHash == Sha256Hex(SerializedBlock(args.slug, auditHeight, previousHash,
                                                  snapshotId, t, args, changes))
      blockId == Len(db.auditBlocks) + 1
      block == [repoId |-> repoId, snapshotId |-> snapshotId, height |-> auditHeight,
                indexedAt |-> t, filePath |-> args.filePath, commitSha |-> args.commitSha,
                commitUrl |-> args.commitUrl, sourceUrl |-> args.sourceUrl,
                commitActor |-> args.commitActor, commitTimestamp |-> args.commitTimestamp,
                previousBlockId |-> previousBlockId, previousHash |-> previousHash,
                blockHash |-> auditBlockHash, changeCount |-> Len(changes),
                addedCount |-> CountAction(changes, "added"),
                removedCount |-> CountAction(changes, "removed"),
                changedCount |-> CountAction(changes, "changed")]
      changeRows == [k \in 1..Len(changes) |->
                       [repoId |-> repoId, blockId |-> blockId,
                        platform |-> changes[k].platform, username |-> changes[k].username,
                        handle |-> changes[k].handle, action |-> changes[k].action,
                        beforeType |-> changes[k].beforeType, afterType |-> changes[k].afterType,
                        beforeDetails |-> changes[k].beforeDetails,
                        afterDetails |-> changes[k].afterDetails]]
  IN IF Cardinality(hits) > 1 \/ leaderboard.threw
     THEN [threw |-> TRUE, db |-> db, result |-> <<>>]
     ELSE [threw |-> FALSE,
           db |-> [repositories |-> repositoriesAfter,
                   snapshots |-> snapshotsAfter,
                   entries |-> entriesAfter,
                   leaderboardRows |-> leaderboard.rows,
                   auditBlocks |-> IF shouldRecordAuditBlock THEN Append(db.auditBlocks, block)
                                   ELSE db.auditBlocks,
                   auditChanges |-> IF shouldRecordAuditBlock THEN db.auditChanges \o changeRows
                                    ELSE db.auditChanges],
           result |-> [repoId |-> repoId, indexedAt |-> t,
                       entriesIndexed |-> Len(normalizedEntries),
                       changesDetected |-> Len(changes),
                       auditRecorded |-> shouldRecordAuditBlock,
                       auditBlockHash |-> IF shouldRecordAuditBlock THEN auditBlockHash
                                          ELSE undefined,
                       auditHeight |-> IF shouldRecordAuditBlock THEN auditHeight ELSE -1]]

\* Lines 1667-1684: the entries grouped by handle.
RECURSIVE GroupEntries(_)
GroupEntries(table) ==
  IF table = <<>> THEN <<>>
  ELSE LET grouped == GroupEntries(SubSeq(table, 1, Len(table) - 1))
           entry == table[Len(table)]
           current == IF MapHas(grouped, entry.handle) THEN MapGet(grouped, entry.handle)
                      ELSE [platform |-> entry.platform, username |-> entry.username,
                            handle |-> entry.handle, vouchedCount |-> 0,
                            denouncedCount |-> 0, repositories |-> 0]
       IN MapSet(grouped, entry.handle,
                 [current EXCEPT !.vouchedCount = IF entry.type = "vouch" THEN @ + 1 ELSE @,
                                 !.denouncedCount = IF entry.type = "vouch" THEN @ ELSE @ + 1,
                                 !.repositories = @ + 1])

\* Lines 1645-1706: the leaderboardRows table after rebuildLeaderboardRows.
RebuildLeaderboardRows(table, t) ==
  LET grouped == MapValues(GroupEntries(table))
  IN {[platform |-> grouped[k].platform, username |-> grouped[k].username,
       handle |-> grouped[k].handle, vouchedCount |-> grouped[k].vouchedCount,
       denouncedCount |-> grouped[k].denouncedCount,
       repositories |-> grouped[k].repositories,
       score |-> grouped[k].vouchedCount - grouped[k].denouncedCount,
       updatedAt |-> t] : k \in 1..Len(grouped)}

(***************************************************************************)
(* The clock.                                                              *)
(***************************************************************************)
Tick(maxTicks) ==
  /\ now < maxTicks * ClockStepMs
  /\ now' = now + ClockStepMs
  /\ UNCHANGED <<guard, http, cron, releaseCalls, store, index, call>>

\* The count of the bucket of a key, 0 when it has none.
BucketCount(key) ==
  LET hits == {b \in indexRateBuckets : b.key = key}
  IN IF hits = {} THEN 0 ELSE Max({b.count : b \in hits})

BucketsBelow(repo, requester, bound) ==
  /\ BucketCount(GlobalKey(requester)) < bound
  /\ BucketCount(RepoKey(requester, repo)) < bound
  /\ BucketCount(RepoGlobalKey(repo)) < bound

(***************************************************************************)
(* POST /index-repo (src/convex/http.ts, lines 22-84).                     *)
(***************************************************************************)
IdleHttp == [pc |-> "idle", repo |-> "", requester |-> "", status |-> 0, acquiredAt |-> -1]

\* Lines 47-64: the handler has validated repo and requester; it asks for a
\* permit and answers permit.status when refused.  A mutation that throws
\* fails the request (500) before the try block.
HttpIndexRepo(p, repo, requester) ==
  /\ http[p].pc = "idle"
  /\ LET permit == AcquireIndexPermit(repoIndexLocks, indexRateBuckets, repo, requester, FALSE, now)
     IN /\ repoIndexLocks' = permit.locks
        /\ indexRateBuckets' = permit.buckets
        /\ http' = [http EXCEPT ![p] =
                      IF permit.status = 200
                      THEN [pc |-> "indexing", repo |-> repo, requester |-> requester,
                            status |-> 0, acquiredAt |-> now]
                      ELSE [pc |-> "responded", repo |-> repo, requester |-> requester,
                            status |-> permit.status, acquiredAt |-> -1]]
  /\ UNCHANGED <<now, cron, releaseCalls, store, index, call>>

\* Lines 66-71: indexGithubRepo returns a result, answered with 200.
HttpIndexReturns(p) ==
  /\ http[p].pc = "indexing"
  /\ http' = [http EXCEPT ![p].pc = "finally", ![p].status = 200]
  /\ UNCHANGED <<now, guard, cron, releaseCalls, store, index, call>>

\* HttpIndexThrows without the finally block: the release sits after the
\* call instead, and a throw skips it.
HttpIndexThrowsSkipsRelease(p) ==
  /\ http[p].pc = "indexing"
  /\ http' = [http EXCEPT ![p].pc = "responded", ![p].status = 500]
  /\ UNCHANGED <<now, guard, cron, releaseCalls, store, index, call>>

\* Lines 72-74: indexGithubRepo throws, answered with 500.
HttpIndexThrows(p) ==
  /\ http[p].pc = "indexing"
  /\ http' = [http EXCEPT ![p].pc = "finally", ![p].status = 500]
  /\ UNCHANGED <<now, guard, cron, releaseCalls, store, index, call>>

\* Lines 75-83: finally { releaseRepoIndexLock }.
HttpRelease(p) ==
  /\ http[p].pc = "finally"
  /\ repoIndexLocks' = ReleaseRepoIndexLock(repoIndexLocks, http[p].repo)
  /\ releaseCalls' = [releaseCalls EXCEPT ![p] = @ + 1]
  /\ http' = [http EXCEPT ![p].pc = "responded"]
  /\ UNCHANGED <<now, indexRateBuckets, cron, store, index, call>>

\* Lines 80-82: the release mutation fails; the error is swallowed.
HttpReleaseFails(p) ==
  /\ http[p].pc = "finally"
  /\ releaseCalls' = [releaseCalls EXCEPT ![p] = @ + 1]
  /\ http' = [http EXCEPT ![p].pc = "responded"]
  /\ UNCHANGED <<now, guard, cron, store, index, call>>

\* The response is delivered; the slot serves the next request.
HttpRespond(p) ==
  /\ http[p].pc = "responded"
  /\ http' = [http EXCEPT ![p] = IdleHttp]
  /\ releaseCalls' = [releaseCalls EXCEPT ![p] = 0]
  /\ UNCHANGED <<now, guard, cron, store, index, call>>

(***************************************************************************)
(* reindexTrackedRepos (src/unnamed/part_010, lines 1169-1255).            *)
(***************************************************************************)
\* What listTrackedRepoSlugs can return: distinct slugs in some order.
SlugLists ==
  {<<>>} \cup {<<r>> : r \in RepoKeys}
         \cup {<<x[1], x[2]>> : x \in {y \in RepoKeys \X RepoKeys : y[1] # y[2]}}

IdleCron == [pc |-> "idle", queue |-> <<>>, slug |-> "", acquiredAt |-> -1, outcome |-> "",
             granted |-> 0, attempted |-> 0, indexed |-> 0, missingFile |-> 0, missingRepo |-> 0, failed |-> 0]

\* Lines 1174-1190.
CronStart(slugs) ==
  /\ cron.pc = "idle"
  /\ cron' = [IdleCron EXCEPT !.pc = "loop", !.queue = slugs, !.attempted = Len(slugs)]
  /\ UNCHANGED <<now, guard, http, releaseCalls, store, index, call>>

\* Lines 1192-1206: the permit for the next slug, rate limits skipped.  A
\* refusal counts as failed; a mutation that throws rejects the action.
CronAcquire ==
  /\ cron.pc = "loop"
  /\ cron.queue # <<>>
  /\ LET slug == Head(cron.queue)
         permit == AcquireIndexPermit(repoIndexLocks, indexRateBuckets, slug, cronRequester, TRUE, now)
     IN /\ repoIndexLocks' = permit.locks
        /\ indexRateBuckets' = permit.buckets
        /\ cron' = IF permit.status = 200
                   THEN [cron EXCEPT !.pc = "indexing", !.slug = slug, !.acquiredAt = now,
                                     !.granted = @ + 1]
                   ELSE IF permit.status = 500
                   THEN [cron EXCEPT !.pc = "rejected", !.queue = <<>>]
                   ELSE [cron EXCEPT !.failed = @ + 1, !.queue = Tail(@)]
  /\ UNCHANGED <<now, http, releaseCalls, store, index, call>>

\* Line 1208: indexGithubRepo returns.
CronIndexReturns(result) ==
  /\ cron.pc = "indexing"
  /\ cron' = [cron EXCEPT !.pc = "finally", !.outcome = result]
  /\ UNCHANGED <<now, guard, http, releaseCalls, store, index, call>>

\* Line 1208: indexGithubRepo throws.
CronIndexThrows ==
  /\ cron.pc = "indexing"
  /\ cron' = [cron EXCEPT !.pc = "finally", !.outcome = "threw"]
  /\ UNCHANGED <<now, guard, http, releaseCalls, store, index, call>>

\* Lines 1221-1243, after the .finally: count the result and go on; when
\* indexGithubRepo threw, the await rethrows and the action is rejected.
CronAfterFinally ==
  IF cron.outcome = "threw"
  THEN [cron EXCEPT !.pc = "rejected", !.queue = <<>>, !.slug = "", !.outcome = "",
                    !.acquiredAt = -1]
  ELSE [cron EXCEPT !.pc = "loop", !.queue = Tail(@), !.slug = "", !.outcome = "",
                    !.acquiredAt = -1,
                    !.indexed = IF cron.outcome = "indexed" THEN @ + 1 ELSE @,
                    !.missingFile = IF cron.outcome = "missing_file" THEN @ + 1 ELSE @,
                    !.missingRepo = IF cron.outcome = "missing_repo" THEN @ + 1 ELSE @,
                    !.failed = IF cron.outcome = "error" THEN @ + 1 ELSE @]

\* Lines 1211-1219: .finally(releaseRepoIndexLock).
CronRelease ==
  /\ cron.pc = "finally"
  /\ repoIndexLocks' = ReleaseRepoIndexLock(repoIndexLocks, cron.slug)
  /\ releaseCalls' = [releaseCalls EXCEPT !["cron"] = @ + 1]
  /\ cron' = CronAfterFinally
  /\ UNCHANGED <<now, indexRateBuckets, http, store, index, call>>

\* Lines 1216-1218: the release mutation fails; the error is swallowed.
CronReleaseFails ==
  /\ cron.pc = "finally"
  /\ releaseCalls' = [releaseCalls EXCEPT !["cron"] = @ + 1]
  /\ cron' = CronAfterFinally
  /\ UNCHANGED <<now, guard, http, store, index, call>>

\* Lines 1246-1253: the loop is over and the counters are returned.
CronReturn ==
  /\ cron.pc = "loop"
  /\ cron.queue = <<>>
  /\ cron' = [cron EXCEPT !.pc = "returned"]
  /\ UNCHANGED <<now, guard, http, releaseCalls, store, index, call>>

\* The run is over; the next hourly run may start.
CronDone ==
  /\ cron.pc \in {"returned", "rejected"}
  /\ cron' = IdleCron
  /\ releaseCalls' = [releaseCalls EXCEPT !["cron"] = 0]
  /\ UNCHANGED <<now, guard, http, store, index, call>>

(***************************************************************************)
(* indexGithubRepo (src/unnamed/part_010, lines 922-1149).  What the       *)
(* GitHub fetches return is an input of the run; its mutations are the     *)
(* steps.  A run that has fetched a file is at "queried" between           *)
(* getRepositorySnapshotMeta and its mutation.                             *)
(***************************************************************************)
Db ==
  [repositories |-> repositories, snapshots |-> snapshots, entries |-> entries,
   leaderboardRows |-> leaderboardRows, auditBlocks |-> auditBlocks,
   auditChanges |-> auditChanges]

\* The transaction of a mutation commits.
Commit(db) ==
  /\ repositories' = db.repositories
  /\ snapshots' = db.snapshots
  /\ entries' = db.entries
  /\ leaderboardRows' = db.leaderboardRows
  /\ auditBlocks' = db.auditBlocks
  /\ auditChanges' = db.auditChanges

IdleIndex == [pc |-> "idle", slug |-> "", version |-> 0, unchanged |-> FALSE]

\* githubFetch (lines 363-420): what a fetch that is not ok reports.  An
\* aborted fetch reports 504; GitHub's 404 body carries a message, the body of
\* its 500 here does not.
FailureMessage(httpStatus) ==
  IF httpStatus = 504 THEN "GitHub API request timed out."
  ELSE IF httpStatus = 404 THEN "Not Found"
  ELSE "GitHub request failed with status 500"

\* The statuses of a run that failed.
FailureStatuses == {"missing_repo", "missing_file", "error"}

\* The value a run returns, kept where a caller of indexGithubRepo is watched.
Returns(result) ==
  call' = IF call.fn = "indexGithubRepo" THEN [call EXCEPT !.returned = result] ELSE call

\* FailWith that returns the failure and records nothing.
FailWithoutRecord(slug, status, lastError, message) ==
  /\ UNCHANGED store
  /\ Returns([status |-> status, slug |-> slug, message |-> message])

\* The last mutation of a run commits, and the run returns unless it threw.
Settle(outcome, result) ==
  /\ Commit(outcome.db)
  /\ IF outcome.threw THEN UNCHANGED call ELSE Returns(result)

\* A run that fails returns after its setRepositoryStatus, unless that threw.
FailWith(slug, status, lastError, message) ==
  Settle(SetRepositoryStatus(Db, slug, status, lastError, now),
         [status |-> status, slug |-> slug, message |-> message])

\* Lines 931-947: GET /repos/<slug> fails, with 404 or otherwise.
IndexRepoFetchFails(slug, httpStatus) ==
  /\ FailWith(slug, IF httpStatus = 404 THEN "missing_repo" ELSE "error",
              FailureMessage(httpStatus), FailureMessage(httpStatus))
  /\ UNCHANGED <<now, guard, callers, index>>

\* IndexPrivateRepo that takes the private repository for an absent one.
IndexPrivateRepoAsMissing(slug) ==
  /\ FailWith(slug, "missing_repo", FailureMessage(404), FailureMessage(404))
  /\ UNCHANGED <<now, guard, callers, index>>

\* Lines 955-971: the repository is private.
IndexPrivateRepo(slug) ==
  /\ FailWith(slug, "error", "Private repositories are not supported.",
              "Private repositories are not supported.")
  /\ UNCHANGED <<now, guard, callers, index>>

\* Lines 988-1007: a contents fetch fails with something other than 404.
IndexFileFetchFails(slug, httpStatus) ==
  /\ httpStatus # 404
  /\ FailWith(slug, "error", FailureMessage(httpStatus), FailureMessage(httpStatus))
  /\ UNCHANGED <<now, guard, callers, index>>

\* Lines 1025-1040: neither candidate path has a file with content.
IndexMissingFile(slug) ==
  /\ FailWith(slug, "missing_file", "VOUCHED.td was not found in this repository.",
              "No VOUCHED.td file was found.")
  /\ UNCHANGED <<now, guard, callers, index>>

\* Lines 1095-1099.
IsSnapshotUnchanged(meta, commitSha, selectedPath) ==
  /\ commitSha # ""
  /\ meta.found
  /\ meta.repoStatus = "indexed"
  /\ meta.commitSha = commitSha
  /\ meta.filePath = selectedPath

\* Lines 1009-1099: the run has fetched version v of the file and reads the
\* snapshot meta.
IndexQueryMeta(p, slug, v) ==
  /\ index[p].pc = "idle"
  /\ LET meta == GetRepositorySnapshotMeta(Db, slug)
     IN index' = [index EXCEPT ![p] =
                    IF meta.threw THEN IdleIndex
                    ELSE [pc |-> "queried", slug |-> slug, version |-> v,
                          unchanged |-> IsSnapshotUnchanged(meta, Versions[v].commitSha,
                                                            Versions[v].filePath)]]
  /\ UNCHANGED <<now, guard, callers, store, call>>

\* The arguments of line 1123 for a fetched version.
ReplaceArgs(slug, v) ==
  [slug |-> slug, commitSha |-> Versions[v].commitSha, filePath |-> Versions[v].filePath,
   commitUrl |-> Versions[v].commitUrl, sourceUrl |-> Versions[v].sourceUrl,
   commitActor |-> Versions[v].commitActor, commitTimestamp |-> Versions[v].commitTimestamp,
   entries |-> ParseTrustdown(Versions[v].content)]

\* Lines 1136-1146: what a run returns after replaceRepositorySnapshot.
IndexedResult(p, result) ==
  [status |-> "indexed", slug |-> index[p].slug,
   filePath |-> Versions[index[p].version].filePath,
   entriesIndexed |-> result.entriesIndexed,
   changesDetected |-> result.changesDetected,
   auditRecorded |-> result.auditRecorded,
   auditBlockHash |-> result.auditBlockHash,
   auditHeight |-> result.auditHeight,
   skippedNoChanges |-> FALSE]

\* Lines 1122-1147, given what replaceRepositorySnapshot did.
SettleReplace(p, outcome) ==
  Settle(outcome, IndexedResult(p, outcome.result))

\* Lines 1122-1147 for the run in slot p, whatever the snapshot meta said.
ReplaceAndReturn(p) ==
  /\ SettleReplace(p, ReplaceRepositorySnapshot(Db, ReplaceArgs(index[p].slug,
                                                                index[p].version), now))
  /\ index' = [index EXCEPT ![p] = IdleIndex]
  /\ UNCHANGED <<now, guard, callers>>

\* IndexShortCircuit that indexes the unchanged file again.
IndexShortCircuitReplaces(p) ==
  /\ index[p].pc = "queried"
  /\ index[p].unchanged
  /\ ReplaceAndReturn(p)

\* Lines 1101-1120: the short-circuit; the run returns.
IndexShortCircuit(p) ==
  /\ index[p].pc = "queried"
  /\ index[p].unchanged
  /\ Settle(SetRepositoryStatus(Db, index[p].slug, "indexed", "undefined", now),
            [status |-> "indexed", slug |-> index[p].slug,
             filePath |-> Versions[index[p].version].filePath,
             entriesIndexed |-> 0, changesDetected |-> 0,
             auditRecorded |-> FALSE, skippedNoChanges |-> TRUE])
  /\ index' = [index EXCEPT ![p] = IdleIndex]
  /\ UNCHANGED <<now, guard, callers>>

\* Lines 1122-1147: parse and replaceRepositorySnapshot; the run returns.
IndexReplace(p) ==
  /\ index[p].pc = "queried"
  /\ ~index[p].unchanged
  /\ ReplaceAndReturn(p)

\* A repair that clears the audit change rows along with the leaderboard.
RebuildLeaderboardDropsChanges ==
  /\ leaderboardRows' = RebuildLeaderboardRows(entries, now)
  /\ auditChanges' = <<>>
  /\ UNCHANGED <<now, guard, callers, index, repositories, snapshots, entries, auditBlocks,
                 call>>

\* rebuildLeaderboardRows (lines 1645-1706), the repair mutation.
RebuildLeaderboard ==
  /\ leaderboardRows' = RebuildLeaderboardRows(entries, now)
  /\ UNCHANGED <<now, guard, callers, index, repositories, snapshots, entries, auditBlocks,
                 auditChanges, call>>

(***************************************************************************)
(* SpecGuard: /index-repo requests against the guard, rate limits          *)
(* included.  SpecPipes: /index-repo requests and the cron run together.   *)
(***************************************************************************)
Init ==
  /\ now = 0
  /\ repoIndexLocks = {}
  /\ indexRateBuckets = {}
  /\ http = [p \in HttpPipes |-> IdleHttp]
  /\ cron = IdleCron
  /\ releaseCalls = [p \in HttpPipes \cup {"cron"} |-> 0]
  /\ repositories = <<>>
  /\ snapshots = <<>>
  /\ entries = <<>>
  /\ leaderboardRows = {}
  /\ auditBlocks = <<>>
  /\ auditChanges = <<>>
  /\ index = [p \in IndexSlots |-> IdleIndex]
  /\ call = NoCall

HttpNext(pipes, repos, bound) ==
  \/ \E p \in pipes, repo \in repos, requester \in Requesters :
        BucketsBelow(repo, requester, bound) /\ HttpIndexRepo(p, repo, requester)
  \/ \E p \in pipes : HttpIndexReturns(p)
  \/ \E p \in pipes : HttpIndexThrows(p)
  \/ \E p \in pipes : HttpRelease(p)
  \/ \E p \in pipes : HttpReleaseFails(p)
  \/ \E p \in pipes : HttpRespond(p)

CronNext ==
  \/ \E slugs \in SlugLists : CronStart(slugs)
  \/ CronAcquire
  \/ \E result \in IndexStatuses : CronIndexReturns(result)
  \/ CronIndexThrows
  \/ CronRelease
  \/ CronReleaseFails
  \/ CronReturn
  \/ CronDone

NextGuard == Tick(MaxTicks) \/ HttpNext(HttpPipes, GuardRepoKeys, MaxBucketCount)

SpecGuard == Init /\ [][NextGuard]_vars

NextPipes == Tick(MaxPipesTicks) \/ HttpNext(PipesHttpPipes, RepoKeys, MaxPipesBucketCount) \/ CronNext

SpecPipes == Init /\ [][NextPipes]_vars

\* An awaited indexGithubRepo settles (every fetch in it is bounded by
\* GITHUB_FETCH_TIMEOUT_MS) and the runtime then runs the finally block.
PipesFairness ==
  /\ \A p \in PipesHttpPipes :
        /\ WF_vars(HttpIndexReturns(p) \/ HttpIndexThrows(p))
        /\ WF_vars(HttpRelease(p) \/ HttpReleaseFails(p))
  /\ WF_vars((\E result \in IndexStatuses : CronIndexReturns(result)) \/ CronIndexThrows)
  /\ WF_vars(CronRelease \/ CronReleaseFails)

SpecPipesFair == SpecPipes /\ PipesFairness

(***************************************************************************)
(* Spec: indexGithubRepo runs of two repositories against the storage,     *)
(* two at a time, the clock standing still (the mutations read it only to  *)
(* stamp rows).  SpecChain: the runs of one repository, one at a time, on  *)
(* the moving clock.                                                       *)
(***************************************************************************)
\* Audit blocks stored, and runs that may still append one.
BlocksInSight ==
  Len(auditBlocks) + Cardinality({p \in IndexSlots : index[p].pc = "queried"})

IndexNext(slots, slugs, maxBlocks, failures) ==
  \/ \E slug \in slugs, httpStatus \in failures : IndexRepoFetchFails(slug, httpStatus)
  \/ \E slug \in slugs : IndexPrivateRepo(slug)
  \/ \E slug \in slugs, httpStatus \in failures : IndexFileFetchFails(slug, httpStatus)
  \/ \E slug \in slugs : IndexMissingFile(slug)
  \/ \E p \in slots, slug \in slugs, v \in 1..Len(Versions) :
        BlocksInSight < maxBlocks /\ IndexQueryMeta(p, slug, v)
  \/ \E p \in slots : IndexShortCircuit(p)
  \/ \E p \in slots : IndexReplace(p)

Next == IndexNext(IndexSlots, Slugs, MaxAuditBlocks, {404, 500}) \/ RebuildLeaderboard

Spec == Init /\ [][Next]_vars

NextChain == Tick(MaxChainTicks) \/ IndexNext(ChainSlots, ChainSlugs, MaxChainBlocks, {404, 500})

SpecChain == Init /\ [][NextChain]_vars

(***************************************************************************)
(* SpecCron: the hourly reindexTrackedRepos runs alone, on repositories    *)
(* that earlier attempts left as missing_repo or missing_file.  A run      *)
(* takes no time on the clock of the hours; the indexGithubRepo call of a  *)
(* slug is one step.                                                       *)
(***************************************************************************)
\* crons.ts line 10: { hours: 1 }.
CronIntervalMs == 3600000

TrackedSlugNames == <<"o/a", "o/b", "o/c", "o/d", "o/e">>

\* One repository more than a run takes.
TrackedSlugs == {TrackedSlugNames[i] : i \in 1..(CronLimit + 1)}

\* The ids of rows in by_last_indexed order: lastIndexedAt, then creation.
RECURSIVE ByLastIndexed(_, _)
ByLastIndexed(repos, ids) ==
  IF ids = {} THEN <<>>
  ELSE LET first == CHOOSE i \in ids :
                      \A j \in ids :
                         \/ repos[i].lastIndexedAt < repos[j].lastIndexedAt
                         \/ repos[i].lastIndexedAt = repos[j].lastIndexedAt /\ i <= j
       IN <<first>> \o ByLastIndexed(repos, ids \ {first})

\* listTrackedRepoSlugs (lines 1151-1167): take(limit), then the filter.
ListTrackedRepoSlugs(repos, limitArg) ==
  LET limit == Min({Max({limitArg, 1}), 100})
      ordered == ByLastIndexed(repos, 1..Len(repos))
      taken == SubSeq(ordered, 1, Min({limit, Len(ordered)}))
      kept == SelectSeq(taken, LAMBDA i : repos[i].status # "missing_repo")
  IN [k \in 1..Len(kept) |-> repos[kept[k]].slug]

\* The row an attempt that found no repository, or no file, leaves behind.
FailedRow(slug, status) ==
  [slug |-> slug, status |-> status,
   lastError |-> IF status = "missing_repo" THEN FailureMessage(404)
                 ELSE "VOUCHED.td was not found in this repository.",
   lastIndexedAt |-> 0, entryCount |-> -1, vouchedCount |-> -1, denouncedCount |-> -1]

InitCron ==
  /\ now = 0
  /\ repoIndexLocks = {}
  /\ indexRateBuckets = {}
  /\ http = [p \in HttpPipes |-> IdleHttp]
  /\ cron = IdleCron
  /\ releaseCalls = [p \in HttpPipes \cup {"cron"} |-> 0]
  /\ \E statuses \in [1..(CronLimit + 1) -> {"missing_repo", "missing_file"}] :
        repositories = [i \in 1..(CronLimit + 1) |-> FailedRow(TrackedSlugNames[i], statuses[i])]
  /\ snapshots = <<>>
  /\ entries = <<>>
  /\ leaderboardRows = {}
  /\ auditBlocks = <<>>
  /\ auditChanges = <<>>
  /\ index = [p \in IndexSlots |-> IdleIndex]
  /\ call = NoCall

\* The interval fires: lines 1174-1176 with the limit of crons.ts line 13.
\* The interval never stops firing; the hours after the first MaxCronRuns
\* stamp rows with the same time.
CronFires ==
  /\ cron.pc = "idle"
  /\ now' = IF now < MaxCronRuns * CronIntervalMs THEN now + CronIntervalMs ELSE now
  /\ LET slugs == ListTrackedRepoSlugs(repositories, CronLimit)
     IN cron' = [IdleCron EXCEPT !.pc = "loop", !.queue = slugs, !.attempted = Len(slugs)]
  /\ UNCHANGED <<guard, http, releaseCalls, store, index, call>>

\* Line 1208: indexGithubRepo for the slug fails as IndexRepoFetchFails,
\* IndexFileFetchFails or IndexMissingFile do.
CronIndexFails(status) ==
  /\ cron.pc = "indexing"
  /\ status \in FailureStatuses
  /\ FailWith(cron.slug, status,
              IF status = "missing_repo" THEN FailureMessage(404)
              ELSE IF status = "error" THEN FailureMessage(500)
              ELSE "VOUCHED.td was not found in this repository.",
              IF status = "missing_repo" THEN FailureMessage(404)
              ELSE IF status = "error" THEN FailureMessage(500)
              ELSE "No VOUCHED.td file was found.")
  /\ cron' = [cron EXCEPT !.pc = "finally", !.outcome = status]
  /\ UNCHANGED <<now, guard, http, releaseCalls, index>>

\* Line 1208: indexGithubRepo for the slug fetches version v of the file and
\* short-circuits or replaces the snapshot.
CronIndexSucceeds(v) ==
  /\ cron.pc = "indexing"
  /\ LET meta == GetRepositorySnapshotMeta(Db, cron.slug)
         outcome == IF IsSnapshotUnchanged(meta, Versions[v].commitSha, Versions[v].filePath)
                    THEN SetRepositoryStatus(Db, cron.slug, "indexed", "undefined", now)
                    ELSE ReplaceRepositorySnapshot(Db, ReplaceArgs(cron.slug, v), now)
     IN /\ ~meta.threw
        /\ ~outcome.threw
        /\ Commit(outcome.db)
  /\ cron' = [cron EXCEPT !.pc = "finally", !.outcome = "indexed"]
  /\ UNCHANGED <<now, guard, http, releaseCalls, index, call>>

NextCron ==
  \/ CronFires
  \/ CronAcquire
  \/ \E status \in FailureStatuses : CronIndexFails(status)
  \/ CronIndexSucceeds(CronVersion)
  \/ CronRelease
  \/ CronReleaseFails
  \/ CronReturn
  \/ CronDone

SpecCron == InitCron /\ [][NextCron]_vars

\* The scheduler fires every hour and every step of a run ends.
SpecCronFair == SpecCron /\ WF_vars(NextCron)

(***************************************************************************)
(* SpecParse: parseTrustdown on drawn files, a file being up to            *)
(* MaxFileLines lines joined by one of the two line ends.                  *)
(***************************************************************************)
FileLines ==
  {<<"a">>,
   <<"-", "a">>,
   <<"@", "A", " ", "x">>,
   <<"b">>,
   <<"-", " ", "b", " ", "x">>,
   <<"b", ":", "a">>,
   <<"b", ":", "a", ":", "b">>,
   <<" ", "g", "i", "t", "h", "u", "b", ":", "B", "\t">>,
   <<"#", " ", "a">>,
   <<>>,
   <<":", "a">>,
   <<"-">>,
   <<"b", ":", "@">>}

LineEnds == {<<"\n">>, <<"\r", "\n">>}

RECURSIVE Join(_, _)
Join(lines, lineEnd) ==
  IF Len(lines) = 0 THEN <<>>
  ELSE IF Len(lines) = 1 THEN lines[1]
  ELSE lines[1] \o lineEnd \o Join(Tail(lines), lineEnd)

Files ==
  {Join(lines, lineEnd) :
     lines \in UNION {[1..n -> FileLines] : n \in 0..MaxFileLines}, lineEnd \in LineEnds}

InitParse ==
  /\ now = 0
  /\ repoIndexLocks = {}
  /\ indexRateBuckets = {}
  /\ http = [p \in HttpPipes |-> IdleHttp]
  /\ cron = IdleCron
  /\ releaseCalls = [p \in HttpPipes \cup {"cron"} |-> 0]
  /\ repositories = <<>>
  /\ snapshots = <<>>
  /\ entries = <<>>
  /\ leaderboardRows = {}
  /\ auditBlocks = <<>>
  /\ auditChanges = <<>>
  /\ index = [p \in IndexSlots |-> IdleIndex]
  /\ \E input \in Files :
        call = [fn |-> "parseTrustdown", pc |-> "drawn", input |-> input, returned |-> <<>>]

\* parseTrustdown (lines 134-180) on the drawn file.
Parse ==
  /\ call.fn = "parseTrustdown"
  /\ call.pc = "drawn"
  /\ call' = [call EXCEPT !.pc = "returned", !.returned = ParseTrustdown(call.input)]
  /\ UNCHANGED <<now, guard, callers, store, index>>

NextParse == Parse

SpecParse == InitParse /\ [][NextParse]_vars

(***************************************************************************)
(* SpecRuns: the runs of one repository, one at a time, on the moving      *)
(* clock, every failure of a fetch included, with the value each run       *)
(* returns kept in call.                                                   *)
(***************************************************************************)
GithubFailures == {404, 500, 504}

InitRuns ==
  /\ now = 0
  /\ repoIndexLocks = {}
  /\ indexRateBuckets = {}
  /\ http = [p \in HttpPipes |-> IdleHttp]
  /\ cron = IdleCron
  /\ releaseCalls = [p \in HttpPipes \cup {"cron"} |-> 0]
  /\ repositories = <<>>
  /\ snapshots = <<>>
  /\ entries = <<>>
  /\ leaderboardRows = {}
  /\ auditBlocks = <<>>
  /\ auditChanges = <<>>
  /\ index = [p \in IndexSlots |-> IdleIndex]
  /\ call = [fn |-> "indexGithubRepo", returned |-> [status |-> "new"]]

NextRuns == Tick(MaxRunTicks) \/ IndexNext(ChainSlots, ChainSlugs, MaxRunBlocks, GithubFailures)

SpecRuns == InitRuns /\ [][NextRuns]_vars

(***************************************************************************)
(* SpecPlan: planEntryReconciliation on drawn inputs.  The entries table   *)
(* starts with rows of one repository as earlier versions of the code may  *)
(* have left them: a handle stored more than once, rows of an older        *)
(* snapshot, rows without repoSlug.  The step plans against a drawn new    *)
(* entry list and carries the plan out as replaceRepositorySnapshot does.  *)
(***************************************************************************)
\* The repository and the snapshot the plan is made for.
planRepoSlug == "o/r"
planSnapshotId == 2

\* What a stored row or a new entry can say about a handle.
Assertions == {[type |-> "vouch", details |-> undefined], [type |-> "denounce", details |-> <<"x">>]}

StoredRows ==
  {[repoId |-> 1, repoSlug |-> place.repoSlug, snapshotId |-> place.snapshotId,
    platform |-> github, username |-> username, handle |-> github \o <<":">> \o username,
    type |-> said.type, details |-> said.details] :
     place \in {[repoSlug |-> planRepoSlug, snapshotId |-> planSnapshotId],
                [repoSlug |-> planRepoSlug, snapshotId |-> 1],
                [repoSlug |-> "undefined", snapshotId |-> planSnapshotId]},
     username \in {<<"a">>, <<"b">>},
     said \in Assertions}

StoredTables == UNION {[1..n -> StoredRows] : n \in 0..MaxExisting}

NewEntry(username, said) ==
  [platform |-> github, username |-> username, handle |-> github \o <<":">> \o username,
   type |-> said.type, details |-> said.details]

\* New entry lists: each handle at most once, in handle order.
NewEntryLists ==
  {<<>>}
    \cup {<<NewEntry(username, said)>> : username \in {<<"a">>, <<"b">>}, said \in Assertions}
    \cup {<<NewEntry(<<"a">>, saidA), NewEntry(<<"b">>, saidB)>> :
            saidA \in Assertions, saidB \in Assertions}

\* Lines 744-753 of replaceRepositorySnapshot: the rows handed to the planner.
ExistingEntriesOf(table, repoId) ==
  LET ids == RowIdsOfRepo(table, repoId)
  IN [k \in 1..Len(ids) |->
        [id |-> ids[k], snapshotId |-> table[ids[k]].snapshotId,
         repoSlug |-> table[ids[k]].repoSlug, platform |-> table[ids[k]].platform,
         username |-> table[ids[k]].username, handle |-> table[ids[k]].handle,
         type |-> table[ids[k]].type, details |-> table[ids[k]].details]]

EmptyPlan == [duplicateDeleteIds |-> <<>>, deleteIds |-> <<>>, patches |-> <<>>, inserts |-> <<>>]

InitPlan ==
  /\ now = 0
  /\ repoIndexLocks = {}
  /\ indexRateBuckets = {}
  /\ http = [p \in HttpPipes |-> IdleHttp]
  /\ cron = IdleCron
  /\ releaseCalls = [p \in HttpPipes \cup {"cron"} |-> 0]
  /\ repositories = <<[slug |-> planRepoSlug, status |-> "indexed", lastError |-> "undefined",
                       lastIndexedAt |-> 0, entryCount |-> -1, vouchedCount |-> -1,
                       denouncedCount |-> -1]>>
  /\ snapshots = <<[repoId |-> 1, commitSha |-> "c0", filePath |-> "VOUCHED.td", indexedAt |-> 0],
                   [repoId |-> 1, commitSha |-> "c1", filePath |-> "VOUCHED.td", indexedAt |-> 0]>>
  /\ entries \in StoredTables
  /\ leaderboardRows = {}
  /\ auditBlocks = <<>>
  /\ auditChanges = <<>>
  /\ index = [p \in IndexSlots |-> IdleIndex]
  /\ \E nextEntries \in NewEntryLists :
        call = [fn |-> "planEntryReconciliation", pc |-> "drawn",
                existingEntries |-> ExistingEntriesOf(entries, 1),
                nextEntries |-> nextEntries, plan |-> EmptyPlan]

\* entry-reconcile-plan.ts lines 39-107, then part_010 lines 765-796.
PlanEntries ==
  /\ call.fn = "planEntryReconciliation"
  /\ call.pc = "drawn"
  /\ LET plan == PlanEntryReconciliation(call.existingEntries, call.nextEntries,
                                         planRepoSlug, planSnapshotId)
     IN /\ call' = [call EXCEPT !.pc = "applied", !.plan = plan]
        /\ entries' = ApplyReconciliationPlan(entries, plan, 1, planRepoSlug, planSnapshotId)
  /\ UNCHANGED <<now, guard, callers, index, repositories, snapshots, leaderboardRows,
                 auditBlocks, auditChanges>>

NextPlan == PlanEntries

SpecPlan == InitPlan /\ [][NextPlan]_vars

(***************************************************************************)
(* POST /api/index (src/app/api/index/route.ts) and normalizeGithubRepoInput *)
(* (src/lib/github-repo.ts).  SpecRoute: one request against a drawn       *)
(* environment; the reply of /index-repo is an input of the second step.   *)
(***************************************************************************)
\* The tables empty and every pipeline idle.
IdleSystem ==
  /\ now = 0
  /\ repoIndexLocks = {}
  /\ indexRateBuckets = {}
  /\ http = [p \in HttpPipes |-> IdleHttp]
  /\ cron = IdleCron
  /\ releaseCalls = [p \in HttpPipes \cup {"cron"} |-> 0]
  /\ repositories = <<>>
  /\ snapshots = <<>>
  /\ entries = <<>>
  /\ leaderboardRows = {}
  /\ auditBlocks = <<>>
  /\ auditChanges = <<>>
  /\ index = [p \in IndexSlots |-> IdleIndex]

\* route.ts lines 182 and 203: the longest repo string accepted.
MAX_REPO_LENGTH == 200

Repeat(c, n) == [i \in 1..n |-> c]

\* replace(/^prefix/i, ""): prefix is given in lower case.
StripPrefixIgnoreCase(s, prefix) ==
  IF Len(s) >= Len(prefix) /\ ToLowerCase(SubSeq(s, 1, Len(prefix))) = prefix
  THEN SubSeq(s, Len(prefix) + 1, Len(s))
  ELSE s

\* replace(/suffix$/i, ""): suffix is given in lower case.
StripSuffixIgnoreCase(s, suffix) ==
  IF Len(s) >= Len(suffix)
     /\ ToLowerCase(SubSeq(s, Len(s) - Len(suffix) + 1, Len(s))) = suffix
  THEN SubSeq(s, 1, Len(s) - Len(suffix))
  ELSE s

RECURSIVE StripLeading(_, _)
StripLeading(s, c) == IF s # <<>> /\ Head(s) = c THEN StripLeading(Tail(s), c) ELSE s

RECURSIVE StripTrailing(_, _)
StripTrailing(s, c) ==
  IF s # <<>> /\ s[Len(s)] = c THEN StripTrailing(SubSeq(s, 1, Len(s) - 1), c) ELSE s

\* split(/[?#]/, 1)[0]: what precedes the first "?" or "#".
BeforeQueryOrHash(s) ==
  LET places == {i \in 1..Len(s) : s[i] \in {"?", "#"}}
  IN IF places = {} THEN s ELSE SubSeq(s, 1, Min(places) - 1)

httpsGithubCom ==
  <<"h", "t", "t", "p", "s", ":", "/", "/", "g", "i", "t", "h", "u", "b", ".", "c", "o", "m", "/">>
httpGithubCom ==
  <<"h", "t", "t", "p", ":", "/", "/", "g", "i", "t", "h", "u", "b", ".", "c", "o", "m", "/">>
githubCom == <<"g", "i", "t", "h", "u", "b", ".", "c", "o", "m", "/">>
dotGit == <<".", "g", "i", "t">>

\* What normalizeGithubRepoInput returns when it returns null.
nullRepo == [owner |-> null, name |-> null, slug |-> null]

\* VALID_REPO_PART (github-repo.ts line 7) on the characters of the model.
ValidRepoChars ==
  {"a", "b", "c", "g", "h", "i", "m", "o", "p", "r", "s", "t", "u", "x",
   "A", "B", "G", "O", "R", "0", "1", ".", "_", "-"}

IsValidRepoPart(part) == part # <<>> /\ \A i \in 1..Len(part) : part[i] \in ValidRepoChars

\* normalizeGithubRepoInput that keeps the case of owner and name.
NormalizeGithubRepoInputKeepsCase(input) ==
  LET trimmed == Trim(input)
      noScheme == IF StripPrefixIgnoreCase(trimmed, httpsGithubCom) # trimmed
                  THEN StripPrefixIgnoreCase(trimmed, httpsGithubCom)
                  ELSE StripPrefixIgnoreCase(trimmed, httpGithubCom)
      noHost == StripPrefixIgnoreCase(noScheme, githubCom)
      noQuery == BeforeQueryOrHash(noHost)
      noGit == StripSuffixIgnoreCase(noQuery, dotGit)
      value == StripTrailing(StripLeading(noGit, "/"), "/")
      parts == SelectSeq(Split(value, "/"), LAMBDA part : part # <<>>)
  IN IF Len(parts) # 2 THEN nullRepo
     ELSE LET owner == Trim(parts[1])
              name == Trim(parts[2])
          IN IF owner = <<>> \/ name = <<>> THEN nullRepo
             ELSE IF ~IsValidRepoPart(owner) \/ ~IsValidRepoPart(name) THEN nullRepo
             ELSE [owner |-> owner, name |-> name, slug |-> owner \o <<"/">> \o name]

\* normalizeGithubRepoInput (github-repo.ts lines 9-32).
NormalizeGithubRepoInput(input) ==
  LET trimmed == Trim(input)
      noScheme == IF StripPrefixIgnoreCase(trimmed, httpsGithubCom) # trimmed
                  THEN StripPrefixIgnoreCase(trimmed, httpsGithubCom)
                  ELSE StripPrefixIgnoreCase(trimmed, httpGithubCom)
      noHost == StripPrefixIgnoreCase(noScheme, githubCom)
      noQuery == BeforeQueryOrHash(noHost)
      noGit == StripSuffixIgnoreCase(noQuery, dotGit)
      value == StripTrailing(StripLeading(noGit, "/"), "/")
      parts == SelectSeq(Split(value, "/"), LAMBDA part : part # <<>>)
  IN IF Len(parts) # 2 THEN nullRepo
     ELSE LET owner == ToLowerCase(Trim(parts[1]))
              name == ToLowerCase(Trim(parts[2]))
          IN IF owner = <<>> \/ name = <<>> THEN nullRepo
             ELSE IF ~IsValidRepoPart(owner) \/ ~IsValidRepoPart(name) THEN nullRepo
             ELSE [owner |-> owner, name |-> name, slug |-> owner \o <<"/">> \o name]

true == <<"t", "r", "u", "e">>
false == <<"f", "a", "l", "s", "e">>

\* isPublicIndexingEnabled (route.ts lines 38-47).
IsPublicIndexingEnabled(env) ==
  LET raw == IF env.PUBLIC_INDEXING_ENABLED = undefined THEN undefined
             ELSE ToLowerCase(Trim(env.PUBLIC_INDEXING_ENABLED))
  IN IF raw = true THEN TRUE
     ELSE IF raw = false THEN FALSE
     ELSE env.NODE_ENV # "production"

\* parseAllowedOwners (route.ts lines 49-61): the set of owners, or null.
nullOwners == [isNull |-> TRUE, owners |-> {}]

ParseAllowedOwners(env) ==
  LET raw == IF env.PUBLIC_INDEXING_ALLOWED_OWNERS = undefined THEN <<>>
             ELSE Trim(env.PUBLIC_INDEXING_ALLOWED_OWNERS)
      pieces == Split(raw, ",")
      owners == {ToLowerCase(Trim(pieces[i])) : i \in 1..Len(pieces)} \ {<<>>}
  IN IF raw = <<>> \/ owners = {} THEN nullOwners ELSE [isNull |-> FALSE, owners |-> owners]

\* getIndexerSecret (route.ts lines 34-36): the trimmed secret, or null.
GetIndexerSecret(env) ==
  IF env.INDEXER_SECRET = undefined \/ Trim(env.INDEXER_SECRET) = <<>> THEN null
  ELSE Trim(env.INDEXER_SECRET)

\* Host names that end with ".convex.cloud" or ".convex.site" (line 88).
ConvexCloudHosts == {"happy-animal-123.convex.cloud", "happy-animal-123.convex.site"}
LocalHosts == {"localhost", "127.0.0.1"}

\* getConvexBaseUrl (route.ts lines 63-98) on what new URL makes of the
\* configured value: its protocol is "undefined" when none is set and
\* "invalid" when new URL throws.
GetConvexBaseUrl(env) ==
  LET parsed == env.CONVEX_HTTP_URL
      isLocalhost == parsed.hostname \in LocalHosts
      allowInsecureLocal == env.NODE_ENV # "production" /\ isLocalhost
  IN IF parsed.protocol \in {"undefined", "invalid"} THEN "null"
     ELSE IF parsed.protocol = "http:" /\ ~allowInsecureLocal THEN "null"
     ELSE IF parsed.protocol \notin {"https:", "http:"} THEN "null"
     ELSE IF ~isLocalhost /\ parsed.hostname \notin ConvexCloudHosts
             /\ parsed.hostname \notin env.CONVEX_ALLOWED_HOSTS THEN "null"
     ELSE parsed.base

\* hasAllowedOrigin (route.ts lines 100-111).  The Origin header is "null"
\* when absent, "" when empty, "invalid" when new URL throws on it, else the
\* origin new URL gives it.
HasAllowedOrigin(origin, requestOrigin) ==
  IF origin \in {"null", ""} THEN TRUE
  ELSE IF origin = "invalid" THEN FALSE
  ELSE origin = requestOrigin

requestOrigin == "https://app.example"

\* POST, lines 162-221: the response of the first check that fails, or the
\* body it sends to /index-repo.  rawRepo is undefined when the body has no
\* repo string.
PostChecks(env, origin, rawRepo) ==
  LET normalizedRepo == NormalizeGithubRepoInput(rawRepo)
      allowedOwners == ParseAllowedOwners(env)
      stop(status, message) == [fetches |-> FALSE, status |-> status, message |-> message]
  IN IF ~IsPublicIndexingEnabled(env)
     THEN stop(403, "Public indexing is disabled on this deployment.")
     ELSE IF ~HasAllowedOrigin(origin, requestOrigin)
     THEN stop(403, "Cross-origin indexing requests are not allowed.")
     ELSE IF rawRepo = undefined \/ Len(Trim(rawRepo)) = 0
             \/ Len(Trim(rawRepo)) > MAX_REPO_LENGTH
     THEN stop(400, "Expected a non-empty repo string.")
     ELSE IF normalizedRepo = nullRepo
     THEN stop(400, "Repository must be a valid GitHub owner/repo or GitHub URL.")
     ELSE IF ~allowedOwners.isNull /\ normalizedRepo.owner \notin allowedOwners.owners
     THEN stop(403, "Indexing is restricted to approved owners.")
     ELSE IF Len(normalizedRepo.slug) > MAX_REPO_LENGTH
     THEN stop(400, "Expected a non-empty repo string.")
     ELSE IF GetIndexerSecret(env) = null
     THEN stop(503, "Indexer secret is not configured. Set INDEXER_SECRET.")
     ELSE IF GetConvexBaseUrl(env) = "null"
     THEN stop(503, "Convex URL is missing or invalid. Set CONVEX_HTTP_URL (recommended).")
     ELSE [fetches |-> TRUE, url |-> GetConvexBaseUrl(env), secret |-> GetIndexerSecret(env),
           repo |-> normalizedRepo.slug]

\* The environments and requests drawn.
EnabledValues == {undefined, true, <<" ", "t", "r", "u", "e">>, false, <<"1">>}
OwnerLists == {undefined, <<"o">>, <<" ", "O", " ", ",", "a">>, <<",">>, <<"a">>}
Secrets == {undefined, <<" ">>, <<"s">>}
ConvexUrls ==
  {[protocol |-> "undefined", hostname |-> "", base |-> ""],
   [protocol |-> "invalid", hostname |-> "", base |-> ""],
   [protocol |-> "https:", hostname |-> "happy-animal-123.convex.cloud",
    base |-> "https://happy-animal-123.convex.cloud"],
   [protocol |-> "http:", hostname |-> "localhost", base |-> "http://localhost"],
   [protocol |-> "https:", hostname |-> "evil.example", base |-> "https://evil.example"]}
Origins == {"null", "", "invalid", "https://app.example", "https://evil.example"}

RouteEnvs ==
  [PUBLIC_INDEXING_ENABLED : EnabledValues, NODE_ENV : {"production", "development"},
   PUBLIC_INDEXING_ALLOWED_OWNERS : OwnerLists, INDEXER_SECRET : Secrets,
   CONVEX_HTTP_URL : ConvexUrls, CONVEX_ALLOWED_HOSTS : {{}, {"evil.example"}}]

RawRepos ==
  {undefined, <<>>, <<" ", " ">>,
   <<"o", "/", "r">>,
   <<"O", "/", "R">>,
   <<" ", "o", " ", "/", "r", "\n">>,
   httpsGithubCom \o <<"O", "/", "r">>,
   <<"G", "i", "t", "h", "u", "b", ".", "c", "o", "m", "/", "o", "/", "r", ".", "g", "i", "t">>,
   <<"/", "o", "/", "r", "/", "?", "x">>,
   <<"o", "/", "r", "#", "/", "x">>,
   <<"b", "/", "r">>,
   <<"o">>,
   <<"o", "/", "r", "/", "x">>,
   <<"o", "/", "$">>,
   <<"o", "/">> \o Repeat("a", MAX_REPO_LENGTH - 2),
   <<"o", "/">> \o Repeat("a", MAX_REPO_LENGTH - 1),
   Repeat(" ", MAX_REPO_LENGTH - 2) \o <<"O", "/", "r">>}

\* What /index-repo answers: ok, a refusal, no answer in time, no connection.
UpstreamOutcomes ==
  {[threw |-> "", status |-> 200], [threw |-> "", status |-> 409],
   [threw |-> "", status |-> 429], [threw |-> "AbortError", status |-> 0],
   [threw |-> "TypeError", status |-> 0]}

InitRoute ==
  /\ IdleSystem
  /\ \E env \in RouteEnvs, origin \in Origins, rawRepo \in RawRepos :
        call = [fn |-> "POST", pc |-> "received", env |-> env, origin |-> origin,
                rawRepo |-> rawRepo, upstream |-> [fetches |-> FALSE], status |-> 0]

\* POST, lines 153-221: the checks; the request is answered or forwarded.
PostReceives ==
  /\ call.fn = "POST"
  /\ call.pc = "received"
  /\ LET checked == PostChecks(call.env, call.origin, call.rawRepo)
     IN call' = IF checked.fetches
                THEN [call EXCEPT !.pc = "fetching", !.upstream = checked]
                ELSE [call EXCEPT !.pc = "responded", !.status = checked.status]
  /\ UNCHANGED <<now, guard, callers, store, index>>

\* POST, lines 223-264: /index-repo answers, or the fetch fails.
PostSettles(outcome) ==
  /\ call.fn = "POST"
  /\ call.pc = "fetching"
  /\ call' = [call EXCEPT !.pc = "responded",
                          !.status = IF outcome.threw = "AbortError" THEN 504
                                     ELSE IF outcome.threw # "" THEN 502
                                     ELSE outcome.status]
  /\ UNCHANGED <<now, guard, callers, store, index>>

NextRoute == PostReceives \/ \E outcome \in UpstreamOutcomes : PostSettles(outcome)

SpecRoute == InitRoute /\ [][NextRoute]_vars

(***************************************************************************)
(* SpecRate: acquireIndexPermit called directly, by two requesters and by  *)
(* the cron caller, for one repository, up to the largest threshold and    *)
(* past it; no caller releases, a lock ends by its TTL.  call keeps the    *)
(* last answer, what the attempt met, and for every rate-limit key how     *)
(* many attempts its counter has let pass since the attempt that set its   *)
(* count to 1.                                                             *)
(***************************************************************************)
RateRequesters == {"ip:1", "ip:2"}
RateRepoKeys == {"o/r"}

RateKeys ==
  {GlobalKey(requester) : requester \in RateRequesters}
    \cup {RepoKey(requester, repo) : requester \in RateRequesters, repo \in RateRepoKeys}
    \cup {RepoGlobalKey(repo) : repo \in RateRepoKeys}

\* The keys acquireIndexPermit counts an attempt under, in the order of
\* lines 495-517.
KeysOf(repo, requester) ==
  <<GlobalKey(requester), RepoKey(requester, repo), RepoGlobalKey(repo)>>

\* The threshold of a key (lines 495, 503, 511).
Threshold(key) ==
  IF key[1] = "global" THEN MAX_GLOBAL_REQUESTS_PER_WINDOW
  ELSE IF key[1] = "repo" THEN MAX_REQUESTS_PER_WINDOW
  ELSE MAX_REPO_GLOBAL_REQUESTS_PER_WINDOW

\* The unique bucket row of a key in a table that has one.
BucketOf(buckets, key) == CHOOSE b \in buckets : b.key = key

HasBucket(buckets, key) == \E b \in buckets : b.key = key

\* An unexpired lock row of a repository, as acquireIndexPermit judges it.
Locked(repo) == \E l \in repoIndexLocks : l.repo = repo /\ l.expiresAt > now

\* The bucket of the key is in its window at the time of the call.
InWindow(key) ==
  HasBucket(indexRateBuckets, key) /\ BucketOf(indexRateBuckets, key).resetAt > now

\* Whether the attempt answered by permit reached the i-th of its counters:
\* it was not bypassed, its arguments were valid, and no earlier counter
\* said "limited".
Reached(permit, skipRateLimit, i) ==
  /\ ~skipRateLimit
  /\ permit.status \in {200, 409, 429}
  /\ permit.limitedBy = 0 \/ i <= permit.limitedBy

\* The passes counted per key after an attempt.
PassedAfter(passed, permit, repo, requester, skipRateLimit) ==
  [key \in RateKeys |->
     IF \E i \in 1..3 : KeysOf(repo, requester)[i] = key /\ Reached(permit, skipRateLimit, i)
     THEN IF BucketOf(permit.buckets, key).count = 1 THEN 1
          ELSE IF \E i \in 1..3 : KeysOf(repo, requester)[i] = key /\ permit.limitedBy = i
          THEN passed[key]
          ELSE passed[key] + 1
     ELSE passed[key]]

\* The guard rows an attempt meets: the lock of the repository and the
\* buckets of its three keys, each absent, expired (its stamp <= now), or
\* live; an expired bucket that counts more than its threshold is "over".
Found(repo, requester) ==
  [lock |-> IF \A l \in repoIndexLocks : l.repo # repo THEN "absent"
            ELSE IF Locked(repo) THEN "live" ELSE "expired",
   buckets |-> [i \in 1..3 |->
                  LET key == KeysOf(repo, requester)[i]
                  IN IF ~HasBucket(indexRateBuckets, key) THEN "absent"
                     ELSE IF InWindow(key) THEN "live"
                     ELSE IF BucketOf(indexRateBuckets, key).count > Threshold(key) THEN "over"
                     ELSE "expired"]]

InitRate ==
  /\ IdleSystem
  /\ call = [fn |-> "acquireIndexPermit", skipRateLimit |-> FALSE, status |-> 0,
             limitedBy |-> 0, passed |-> [key \in RateKeys |-> 0],
             found |-> [lock |-> "absent", buckets |-> <<"absent", "absent", "absent">>]]

\* One acquireIndexPermit mutation.
RateAttempt(repo, requester, skipRateLimit) ==
  /\ call.fn = "acquireIndexPermit"
  /\ LET permit == AcquireIndexPermit(repoIndexLocks, indexRateBuckets, repo, requester,
                                      skipRateLimit, now)
     IN /\ repoIndexLocks' = permit.locks
        /\ indexRateBuckets' = permit.buckets
        /\ call' = [call EXCEPT
                      !.skipRateLimit = skipRateLimit,
                      !.status = permit.status,
                      !.limitedBy = permit.limitedBy,
                      !.found = Found(repo, requester),
                      !.passed = PassedAfter(call.passed, permit, repo, requester,
                                             skipRateLimit)]
  /\ UNCHANGED <<now, callers, store, index>>

NextRate ==
  \/ Tick(MaxRateTicks)
  \/ \E repo \in RateRepoKeys, requester \in RateRequesters :
        /\ BucketCount(GlobalKey(requester)) < MaxRateCount
        /\ requester = "ip:2" => BucketCount(GlobalKey(requester)) < MaxSecondCount
        /\ RateAttempt(repo, requester, FALSE)
  \/ \E repo \in RateRepoKeys \cup {""} : RateAttempt(repo, cronRequester, TRUE)

SpecRate == InitRate /\ [][NextRate]_vars

(***************************************************************************)
(* Guard claims.                                                           *)
(***************************************************************************)

\* The pipelines between their own successful acquire and their own release.
HttpHolds(p, repo) == http[p].pc \in {"indexing", "finally"} /\ http[p].repo = repo
CronHolds(repo) == cron.pc \in {"indexing", "finally"} /\ cron.slug = repo
Holders(repo) ==
  {p \in HttpPipes : HttpHolds(p, repo)} \cup (IF CronHolds(repo) THEN {"cron"} ELSE {})

\* This step is p's acquireIndexPermit call (the answer is in http').
HttpAcquires(p) == http[p].pc = "idle" /\ http'[p].pc # "idle"
HttpGranted(p) == http'[p].pc = "indexing"

\* The expiresAt of the lock rows of a repository after the step.
ExpiriesAfter(repo) == {l.expiresAt : l \in {x \in repoIndexLocks' : x.repo = repo}}

\* The thresholds a 429 for (repo, requester) can rest on.
OverThresholdAfter(repo, requester) ==
  \E b \in indexRateBuckets' :
     \/ b.key = GlobalKey(requester) /\ b.count > MAX_GLOBAL_REQUESTS_PER_WINDOW
     \/ b.key = RepoKey(requester, repo) /\ b.count > MAX_REQUESTS_PER_WINDOW
     \/ b.key = RepoGlobalKey(repo) /\ b.count > MAX_REPO_GLOBAL_REQUESTS_PER_WINDOW

\* C1: at most one pipeline at a time is between its own successful acquire
\* and its own release for a repository.  (Violated: a lock that has expired
\* is handed to the next caller while its first holder is still indexing.)
C1_OneHolderPerRepo == \A repo \in RepoKeys : Cardinality(Holders(repo)) <= 1

\* C2 as stated: while a repository has an unexpired lock row every acquire
\* for it is answered 409 and leaves the row alone, and an acquire on an
\* unlocked repository succeeds (so of two in a row exactly one succeeds).
C2_Original ==
  [][\A p \in HttpPipes :
       HttpAcquires(p) =>
         LET repo == http'[p].repo
         IN /\ Locked(repo) =>
                 /\ http'[p].pc = "responded" /\ http'[p].status = 409
                 /\ ExpiriesAfter(repo) = {l.expiresAt : l \in {x \in repoIndexLocks : x.repo = repo}}
            /\ ~Locked(repo) => HttpGranted(p)]_vars

\* C2 as amended: while a repository has an unexpired lock row every acquire
\* for it is refused, with 409 unless a rate-limit counter rejects it first
\* with 429, and the row keeps its expiresAt; 409 is answered only then; an
\* acquire on an unlocked repository is granted unless it is rate-limited,
\* and a granted one leaves a lock row with expiresAt = now + TTL.
C2_LockedRefuses ==
  [][\A p \in HttpPipes :
       HttpAcquires(p) =>
         LET repo == http'[p].repo
             old  == {l \in repoIndexLocks : l.repo = repo /\ l.expiresAt > now}
         IN /\ Locked(repo) =>
                 /\ http'[p].pc = "responded" /\ http'[p].status \in {409, 429}
                 /\ {l \in repoIndexLocks' : l.repo = repo} = old
            /\ ~Locked(repo) =>
                 \/ HttpGranted(p) /\ ExpiriesAfter(repo) = {now + INDEX_LOCK_TIMEOUT_MS}
                 \/ http'[p].pc = "responded" /\ http'[p].status = 429
            /\ http'[p].status = 429 => OverThresholdAfter(repo, http'[p].requester)]_vars

\* C2's case: a request was answered 409 and the lock it met is unexpired.
C2_Witness ==
  \E p \in HttpPipes :
     /\ http[p].pc = "responded" /\ http[p].status = 409
     /\ Locked(http[p].repo)

\* C3 as stated: while a pipeline that acquired at t has not released, every
\* acquire for the repository at a time >= t + TTL that is not rate-limited
\* is granted and sets expiresAt = now + TTL.
C3_Original ==
  [][\A p \in HttpPipes, q \in HttpPipes :
       (/\ HttpAcquires(p)
        /\ HttpHolds(q, http'[p].repo)
        /\ now >= http[q].acquiredAt + INDEX_LOCK_TIMEOUT_MS
        /\ http'[p].status # 429)
       => /\ HttpGranted(p)
          /\ ExpiriesAfter(http'[p].repo) = {now + INDEX_LOCK_TIMEOUT_MS}]_vars

\* C3 as amended: the same, unless another acquire for the repository has
\* succeeded since t and its lock is unexpired; that is, every acquire that
\* is not rate-limited and meets no lock row with expiresAt > now is granted
\* and sets expiresAt = now + TTL, the lock of a holder that acquired at t is
\* no such row from t + TTL on, and no lock row ever reaches further than one
\* TTL ahead of the clock.
C3_ExpiredLockYields ==
  /\ [][\A p \in HttpPipes :
          (HttpAcquires(p) /\ ~Locked(http'[p].repo) /\ http'[p].status # 429)
          => /\ HttpGranted(p)
             /\ ExpiriesAfter(http'[p].repo) = {now + INDEX_LOCK_TIMEOUT_MS}]_vars
  /\ [][\A p \in HttpPipes :
          HttpGranted(p) /\ HttpAcquires(p) =>
             /\ http'[p].acquiredAt = now
             /\ \A l \in repoIndexLocks' :
                   l.repo = http'[p].repo => l.expiresAt = http'[p].acquiredAt + INDEX_LOCK_TIMEOUT_MS]_vars
  /\ [](\A l \in repoIndexLocks : l.expiresAt <= now + INDEX_LOCK_TIMEOUT_MS)

\* C3's case: a pipeline holds a permit granted at or after the expiry of
\* the lock of another pipeline that still has not released.
C3_Witness ==
  \E p \in HttpPipes, q \in HttpPipes :
     /\ p # q /\ http[p].pc = "indexing" /\ HttpHolds(q, http[p].repo)
     /\ http[p].acquiredAt >= http[q].acquiredAt + INDEX_LOCK_TIMEOUT_MS

\* C4: every pipeline that obtained a permit calls releaseRepoIndexLock
\* once, however indexGithubRepo ends, before it answers or goes on; a
\* refused request never calls it.  For /index-repo: a request that has
\* answered called release once if it held a permit and never otherwise, and
\* one that is indexing gets to the call.  For the cron run: between slugs
\* and at its end it has called release once per permit it was granted.
C4_ReleaseAlwaysCalled ==
  /\ [](\A p \in HttpPipes :
          /\ http[p].pc = "responded" /\ http[p].acquiredAt >= 0 => releaseCalls[p] = 1
          /\ http[p].pc = "responded" /\ http[p].acquiredAt < 0 => releaseCalls[p] = 0
          /\ http[p].pc \in {"idle", "indexing", "finally"} => releaseCalls[p] = 0)
  /\ [](/\ cron.pc \in {"loop", "returned", "rejected"} => releaseCalls["cron"] = cron.granted
        /\ cron.pc \in {"indexing", "finally"} => releaseCalls["cron"] = cron.granted - 1)
  /\ \A p \in HttpPipes : (http[p].pc = "indexing") ~> (releaseCalls[p] = 1)
  /\ (cron.pc = "indexing") ~> (cron.pc \notin {"indexing", "finally"})

\* C4's case: indexGithubRepo threw in a request, released and answered 500,
\* while another request stands refused.
C4_Witness ==
  /\ \E p \in HttpPipes :
        http[p].pc = "responded" /\ http[p].status = 500 /\ releaseCalls[p] = 1
  /\ cron.pc = "rejected" /\ releaseCalls["cron"] = 1

(***************************************************************************)
(* Storage claims.                                                         *)
(***************************************************************************)
\* The stored entries of a repository (none when it has no row), and the
\* (handle, type, details) of a list of entries.
StoredEntriesOf(repos, table, slug) ==
  LET hits == RepoIdsBySlug(repos, slug)
      ids == RowIdsOfRepo(table, CHOOSE i \in hits : TRUE)
  IN IF hits = {} THEN <<>> ELSE [k \in 1..Len(ids) |-> table[ids[k]]]

EntryTriples(list) == {<<list[k].handle, list[k].type, list[k].details>> : k \in 1..Len(list)}

\* The normalized entries a run passes on for the version it fetched.
NormalizedNewEntries(v) ==
  LET parsed == ParseTrustdown(Versions[v].content)
  IN [k \in 1..Len(parsed) |-> NormalizeEntry(parsed[k])]

\* This step is the completed replaceRepositorySnapshot of run p.
ReplaceCompletes(p) ==
  /\ index[p].pc = "queried"
  /\ ~index[p].unchanged
  /\ index'[p].pc = "idle"
  /\ ~ReplaceRepositorySnapshot(Db, ReplaceArgs(index[p].slug, index[p].version), now).threw

\* The ids of the audit blocks of a repository.
BlockIdsOf(repoId) == {b \in 1..Len(auditBlocks) : auditBlocks[b].repoId = repoId}

\* (handle, vouchedCount, denouncedCount, repositories) of leaderboard rows.
LeaderboardCounts(rows) ==
  {<<row.handle, row.vouchedCount, row.denouncedCount, row.repositories>> : row \in rows}

\* C5: for every handle the materialized leaderboard row's (vouchedCount,
\* denouncedCount, repositories) equals what rebuildLeaderboardRows would
\* compute from the stored entries, and a handle has a row exactly when the
\* rescan produces one.  (Violated: a stored username that still begins
\* with "@" is normalized once more before the diff, so the deltas are
\* booked under handles the stored rows do not have.)
C5_LeaderboardMatchesRescan ==
  LeaderboardCounts(leaderboardRows) = LeaderboardCounts(RebuildLeaderboardRows(entries, now))

\* C6: after every completed replaceRepositorySnapshot the stored entries of
\* the repository hold each handle at most once and their set of (handle,
\* type, details) equals that of the normalized new entries.  (Violated:
\* two parsed entries whose usernames differ by a leading "@" normalize to
\* one handle, and only the last of them is stored.)
C6_StoredEntriesAreNewSet ==
  [][\A p \in IndexSlots :
       ReplaceCompletes(p) =>
         LET stored == StoredEntriesOf(repositories', entries', index[p].slug)
         IN /\ \A i, j \in 1..Len(stored) : stored[i].handle = stored[j].handle => i = j
            /\ EntryTriples(stored) = EntryTriples(NormalizedNewEntries(index[p].version))]_vars

\* C7: for every repository the heights of its audit blocks are exactly
\* 1..n, with no gap and no duplicate.
C7_HeightsGapless ==
  \A repoId \in 1..Len(repositories) :
     /\ {auditBlocks[b].height : b \in BlockIdsOf(repoId)} = 1..Cardinality(BlockIdsOf(repoId))
     /\ \A b, c \in BlockIdsOf(repoId) : auditBlocks[b].height = auditBlocks[c].height => b = c

\* Runs of one repository have appended a genesis block and a block on it.
C7_Witness ==
  \E repoId \in 1..Len(repositories) : Cardinality(BlockIdsOf(repoId)) >= 2

\* The digest of a stored block computed again from its row, the row of its
\* repository and its auditChanges rows in handle order, absent fields null.
RecomputedBlockHash(b) ==
  LET block == auditBlocks[b]
      rows == {c \in 1..Len(auditChanges) : auditChanges[c].blockId = b}
      handles == SortHandles({auditChanges[c].handle : c \in rows})
      rowOf(handle) == auditChanges[CHOOSE c \in rows : auditChanges[c].handle = handle]
  IN Sha256Hex(<<repositories[block.repoId].slug, block.height,
                 IF block.previousHash = undefined THEN null ELSE block.previousHash,
                 block.snapshotId, block.indexedAt, block.filePath, block.commitSha,
                 IF block.commitUrl = "undefined" THEN "null" ELSE block.commitUrl,
                 IF block.sourceUrl = "undefined" THEN "null" ELSE block.sourceUrl,
                 IF block.commitActor = "undefined" THEN "null" ELSE block.commitActor,
                 IF block.commitTimestamp = "undefined" THEN "null" ELSE block.commitTimestamp,
                 [k \in 1..Len(handles) |->
                    <<handles[k], rowOf(handles[k]).action,
                      IF rowOf(handles[k]).beforeType = "undefined" THEN "null"
                      ELSE rowOf(handles[k]).beforeType,
                      IF rowOf(handles[k]).afterType = "undefined" THEN "null"
                      ELSE rowOf(handles[k]).afterType,
                      IF rowOf(handles[k]).beforeDetails = undefined THEN null
                      ELSE rowOf(handles[k]).beforeDetails,
                      IF rowOf(handles[k]).afterDetails = undefined THEN null
                      ELSE rowOf(handles[k]).afterDetails>>]>>)

\* C8: for every stored audit block, the digest recomputed from the stored
\* block row, its repository row and its audit-change rows equals the
\* stored blockHash.
C8_BlockHashRecomputable ==
  \A b \in 1..Len(auditBlocks) :
     /\ Cardinality({c \in 1..Len(auditChanges) : auditChanges[c].blockId = b})
          = auditBlocks[b].changeCount
     /\ RecomputedBlockHash(b) = auditBlocks[b].blockHash

\* A block on a predecessor, stamped after the clock moved, with an added
\* and a removed or changed handle among its changes.
C8_Witness ==
  \E b \in 1..Len(auditBlocks) :
     /\ auditBlocks[b].height >= 2
     /\ auditBlocks[b].indexedAt > 0
     /\ auditBlocks[b].changeCount >= 2
     /\ auditBlocks[b].addedCount < auditBlocks[b].changeCount

\* C9: replaceRepositorySnapshot appends exactly one audit block when the
\* repository has no block yet or the stored and the new entry set differ,
\* and none otherwise; the returned auditRecorded is true exactly when a
\* block was appended, and auditHeight is then the new block's height.
\* (Violated: the diff is taken from the stored entries normalized once
\* more, so it can be non-empty between equal sets and empty between
\* different ones.)
C9_BlockIffDiffOrGenesis ==
  [][\A p \in IndexSlots :
       ReplaceCompletes(p) =>
         LET slug == index[p].slug
             hits == RepoIdsBySlug(repositories, slug)
             hadBlock == hits # {} /\ BlockIdsOf(CHOOSE i \in hits : TRUE) # {}
             storedBefore == EntryTriples(StoredEntriesOf(repositories, entries, slug))
             new == EntryTriples(NormalizedNewEntries(index[p].version))
             appended == Len(auditBlocks') - Len(auditBlocks)
             result == ReplaceRepositorySnapshot(Db, ReplaceArgs(slug, index[p].version), now).result
         IN /\ appended = IF ~hadBlock \/ storedBefore # new THEN 1 ELSE 0
            /\ result.auditRecorded <=> appended = 1
            /\ appended = 1 =>
                 /\ result.auditHeight = auditBlocks'[Len(auditBlocks')].height
                 /\ auditBlocks'[Len(auditBlocks')].repoId = result.repoId]_vars

\* C10: every repository whose status is indexed has at least one audit
\* block.
C10_IndexedHasBlock ==
  \A repoId \in 1..Len(repositories) :
     repositories[repoId].status = "indexed" => BlockIdsOf(repoId) # {}

\* A repository indexed from a file without entries: its genesis block has
\* no change.
C10_Witness ==
  \E repoId \in 1..Len(repositories) :
     /\ repositories[repoId].status = "indexed"
     /\ repositories[repoId].entryCount = 0
     /\ \E b \in BlockIdsOf(repoId) : auditBlocks[b].height = 1 /\ auditBlocks[b].changeCount = 0


(***************************************************************************)
(* The planner claims, read in the states of SpecPlan where the plan has   *)
(* been made and carried out.                                              *)
(***************************************************************************)
PlanApplied == call.fn = "planEntryReconciliation" /\ call.pc = "applied"

SetOf(list) == {list[k] : k \in 1..Len(list)}

PlanPatchIds == {call.plan.patches[k].id : k \in 1..Len(call.plan.patches)}

\* The place in list A of the first row of each handle.
SurvivorPlaces ==
  {i \in 1..Len(call.existingEntries) :
     \A j \in 1..(i - 1) : call.existingEntries[j].handle # call.existingEntries[i].handle}

NewHandles == {call.nextEntries[k].handle : k \in 1..Len(call.nextEntries)}

NewEntryOf(handle) ==
  call.nextEntries[CHOOSE k \in 1..Len(call.nextEntries) : call.nextEntries[k].handle = handle]

\* An existing row that already says what the new entry of its handle says.
UpToDate(existing) ==
  /\ existing.handle \in NewHandles
  /\ existing.platform = NewEntryOf(existing.handle).platform
  /\ existing.username = NewEntryOf(existing.handle).username
  /\ existing.type = NewEntryOf(existing.handle).type
  /\ existing.details = NewEntryOf(existing.handle).details
  /\ existing.snapshotId = planSnapshotId
  /\ existing.repoSlug = planRepoSlug

\* C11: carrying out the plan of planEntryReconciliation(A, B, slug, snapshot)
\* on A leaves exactly one row per handle of B, with B's platform, username,
\* type and details and the expected snapshotId and repoSlug, and no row for a
\* handle that is not in B.
C11_PlanYieldsNewSet ==
  PlanApplied =>
    /\ \A k \in 1..Len(call.nextEntries) :
         LET rows == {i \in 1..Len(entries) : entries[i].handle = call.nextEntries[k].handle}
         IN /\ Cardinality(rows) = 1
            /\ \A i \in rows :
                 /\ entries[i].platform = call.nextEntries[k].platform
                 /\ entries[i].username = call.nextEntries[k].username
                 /\ entries[i].type = call.nextEntries[k].type
                 /\ entries[i].details = call.nextEntries[k].details
                 /\ entries[i].snapshotId = planSnapshotId
                 /\ entries[i].repoSlug = planRepoSlug
    /\ \A i \in 1..Len(entries) : entries[i].handle \in NewHandles

\* A plan with a duplicate to delete, a row to patch and an entry to insert.
C11_Witness ==
  /\ PlanApplied
  /\ call.plan.duplicateDeleteIds # <<>>
  /\ call.plan.patches # <<>>
  /\ call.plan.inserts # <<>>

\* C12: the plan is delta-only: a surviving row that is up to date is in no
\* part of the plan, deleteIds are exactly the surviving rows whose handle is
\* not in the new set, patches are exactly the surviving rows in the new set
\* that differ from it, and inserts are exactly the new entries whose handle no
\* existing row has.
C12_PlanIsDeltaOnly ==
  PlanApplied =>
    LET A == call.existingEntries
        plan == call.plan
    IN /\ \A i \in SurvivorPlaces :
            UpToDate(A[i]) =>
              A[i].id \notin SetOf(plan.duplicateDeleteIds) \cup SetOf(plan.deleteIds)
                               \cup PlanPatchIds
       /\ SetOf(plan.deleteIds) = {A[i].id : i \in {j \in SurvivorPlaces : A[j].handle \notin NewHandles}}
       /\ Len(plan.deleteIds) = Cardinality(SetOf(plan.deleteIds))
       /\ PlanPatchIds = {A[i].id : i \in {j \in SurvivorPlaces :
                                             A[j].handle \in NewHandles /\ ~UpToDate(A[j])}}
       /\ Len(plan.patches) = Cardinality(PlanPatchIds)
       /\ SetOf(plan.inserts) =
            {entry \in SetOf(call.nextEntries) :
               \A i \in 1..Len(A) : A[i].handle # entry.handle}
       /\ Len(plan.inserts) = Cardinality(SetOf(plan.inserts))

\* A plan that leaves an up-to-date row alone while it deletes another row.
C12_Witness ==
  /\ PlanApplied
  /\ \E i \in SurvivorPlaces : UpToDate(call.existingEntries[i])
  /\ call.plan.deleteIds # <<>>
  /\ call.plan.patches = <<>>

\* C13: of the existing rows of one handle the first in input order survives
\* and each later one is in duplicateDeleteIds and neither in deleteIds nor in
\* patches, whether or not the handle is in the new set.
C13_FirstOfHandleSurvives ==
  PlanApplied =>
    LET A == call.existingEntries
        plan == call.plan
    IN /\ \A i \in 1..Len(A) :
            IF i \in SurvivorPlaces
            THEN A[i].id \notin SetOf(plan.duplicateDeleteIds)
            ELSE /\ A[i].id \in SetOf(plan.duplicateDeleteIds)
                 /\ A[i].id \notin SetOf(plan.deleteIds)
                 /\ A[i].id \notin PlanPatchIds
       /\ Len(plan.duplicateDeleteIds) = Len(A) - Cardinality(SurvivorPlaces)

\* A handle stored three times and absent from the new set: the first row is
\* deleted as absent, the two later ones as duplicates.
C13_Witness ==
  /\ PlanApplied
  /\ call.nextEntries # <<>>
  /\ Len(call.plan.duplicateDeleteIds) = 2
  /\ Len(call.plan.deleteIds) = 1
  /\ \A i \in 1..Len(call.existingEntries) :
       call.existingEntries[i].handle \notin NewHandles


(***************************************************************************)
(* The claims about single runs of indexGithubRepo, read in SpecRuns.      *)
(***************************************************************************)
\* Rows of the repositories table other than the one of slug are as they were,
\* and the row of slug keeps its cached counts.
OnlyStatusOfRepoChanges(slug) ==
  /\ Len(repositories') = Len(repositories)
  /\ \A i \in 1..Len(repositories) :
       IF repositories[i].slug = slug
       THEN /\ repositories'[i].slug = slug
            /\ repositories'[i].entryCount = repositories[i].entryCount
            /\ repositories'[i].vouchedCount = repositories[i].vouchedCount
            /\ repositories'[i].denouncedCount = repositories[i].denouncedCount
       ELSE repositories'[i] = repositories[i]

\* The row of slug after the step has this status and lastError and the time
\* of the step as the time of its last attempt.
RecordsStatus(slug, status, lastError) ==
  \E i \in 1..Len(repositories') :
    /\ repositories'[i].slug = slug
    /\ repositories'[i].status = status
    /\ repositories'[i].lastError = lastError
    /\ repositories'[i].lastIndexedAt = now

\* C14: a run that found the repository indexed with the fetched commit id
\* (not empty) and file path equal to the stored snapshot's returns status
\* indexed with skippedNoChanges true, changesDetected 0 and auditRecorded
\* false, leaves entries, snapshots, audit blocks, audit changes and
\* leaderboard rows as they were and changes only the status, lastError and
\* last-attempt time of the repository's row.
C14_UnchangedSnapshotShortCircuits ==
  [][\A p \in ChainSlots :
       (index[p].pc = "queried" /\ index[p].unchanged /\ index'[p].pc = "idle") =>
         /\ call'.returned.status = "indexed"
         /\ call'.returned.slug = index[p].slug
         /\ call'.returned.skippedNoChanges
         /\ call'.returned.changesDetected = 0
         /\ ~call'.returned.auditRecorded
         /\ UNCHANGED <<entries, snapshots, auditBlocks, auditChanges, leaderboardRows>>
         /\ OnlyStatusOfRepoChanges(index[p].slug)
         /\ RecordsStatus(index[p].slug, "indexed", "undefined")]_vars

\* A run has short-circuited on a repository that has entries and its genesis
\* block, later than the run that indexed it.
C14_Witness ==
  /\ call.fn = "indexGithubRepo"
  /\ call.returned.status = "indexed"
  /\ call.returned.skippedNoChanges
  /\ entries # <<>>
  /\ Len(auditBlocks) = 1
  /\ \E i \in 1..Len(repositories) :
       /\ repositories[i].lastIndexedAt > auditBlocks[1].indexedAt
       /\ repositories[i].status = "indexed"


(***************************************************************************)
(* What a refused acquireIndexPermit leaves behind, read in SpecGuard.     *)
(***************************************************************************)
\* This step is p's acquireIndexPermit call and it is answered 409 or 429.
HttpRefused(p) == HttpAcquires(p) /\ http'[p].status \in {409, 429}

\* The rate buckets a call for (repo, requester) reads.
BucketKeys(repo, requester) ==
  {GlobalKey(requester), RepoKey(requester, repo), RepoGlobalKey(repo)}

\* Bucket rows the step wrote.
BucketsWritten == indexRateBuckets' \ indexRateBuckets

FailureStep == now' = now /\ index' = index /\ <<repositories, call>>' # <<repositories, call>>

IndexStorageUntouched == UNCHANGED <<entries, snapshots, auditBlocks, auditChanges, leaderboardRows>>

\* The rows of the repositories table before the step are as they were but for
\* the status, lastError and last-attempt time of the row of slug.
OnlyRepoRecordChanges(slug) ==
  /\ Len(repositories') \in {Len(repositories), Len(repositories) + 1}
  /\ \A i \in 1..Len(repositories) :
       IF repositories[i].slug = slug
       THEN /\ repositories'[i].entryCount = repositories[i].entryCount
            /\ repositories'[i].vouchedCount = repositories[i].vouchedCount
            /\ repositories'[i].denouncedCount = repositories[i].denouncedCount
       ELSE repositories'[i] = repositories[i]

\* C16 as stated: a run that meets an absent repository (404), no file at
\* either candidate path, another failure or a timeout records missing_repo,
\* missing_file or error with the message as lastError, returns that same
\* status and message, and leaves entries, snapshots, audit blocks, audit
\* changes and leaderboard rows as they were.
C16_Original ==
  [][FailureStep =>
       /\ call'.returned.status \in FailureStatuses
       /\ RecordsStatus(call'.returned.slug, call'.returned.status, call'.returned.message)
       /\ IndexStorageUntouched]_vars

\* C16 as amended: the same, but the message returned is the recorded
\* lastError only for missing_repo and error; for missing_file the recorded
\* lastError is "VOUCHED.td was not found in this repository." and the returned
\* message is "No VOUCHED.td file was found.".  A 404 of the repository
\* fetch gives missing_repo, any other failure of it or of a file fetch, a
\* timeout (504) included, gives error with the message of the fetch.
C16_FailuresRecorded ==
  /\ [][FailureStep =>
          /\ call'.returned.status \in FailureStatuses
          /\ RecordsStatus(call'.returned.slug, call'.returned.status,
                           IF call'.returned.status = "missing_file"
                           THEN "VOUCHED.td was not found in this repository."
                           ELSE call'.returned.message)
          /\ call'.returned.status = "missing_file" =>
               call'.returned.message = "No VOUCHED.td file was found."
          /\ OnlyRepoRecordChanges(call'.returned.slug)
          /\ IndexStorageUntouched]_vars
  /\ [][\A slug \in ChainSlugs, httpStatus \in GithubFailures :
          /\ IndexRepoFetchFails(slug, httpStatus) =>
               /\ call'.returned.status = (IF httpStatus = 404 THEN "missing_repo" ELSE "error")
               /\ call'.returned.message = FailureMessage(httpStatus)
          /\ IndexFileFetchFails(slug, httpStatus) =>
               /\ call'.returned.status = "error"
               /\ call'.returned.message = FailureMessage(httpStatus)
          /\ IndexMissingFile(slug) => call'.returned.status = "missing_file"]_vars

\* A run found no file in a repository that had been indexed: the row says
\* missing_file, the entries and the audit block are still there.
C16_Witness ==
  /\ call.fn = "indexGithubRepo"
  /\ call.returned.status = "missing_file"
  /\ call.returned.message = "No VOUCHED.td file was found."
  /\ \E i \in 1..Len(repositories) :
       /\ repositories[i].slug = call.returned.slug
       /\ repositories[i].status = "missing_file"
       /\ repositories[i].lastError = "VOUCHED.td was not found in this repository."
       /\ repositories[i].entryCount > 0
  /\ entries # <<>>
  /\ auditBlocks # <<>>


\* C20: a run on a repository GitHub reports as private fetches no file and
\* stores none: entries, snapshots, audit blocks, audit changes and
\* leaderboard rows stay as they were, the repository's row gets status error
\* with lastError "Private repositories are not supported.", and the run
\* returns status error.
C20_PrivateRepoRefused ==
  [][\A slug \in ChainSlugs :
       IndexPrivateRepo(slug) =>
         /\ index' = index
         /\ IndexStorageUntouched
         /\ OnlyRepoRecordChanges(slug)
         /\ RecordsStatus(slug, "error", "Private repositories are not supported.")
         /\ call'.returned.status = "error"
         /\ call'.returned.slug = slug]_vars

\* A repository that was indexed has turned private: the run returned error,
\* the row says so, and its entries and audit block are still stored.
C20_Witness ==
  /\ call.fn = "indexGithubRepo"
  /\ call.returned.status = "error"
  /\ call.returned.message = "Private repositories are not supported."
  /\ \E i \in 1..Len(repositories) :
       /\ repositories[i].slug = call.returned.slug
       /\ repositories[i].status = "error"
       /\ repositories[i].lastError = "Private repositories are not supported."
       /\ \E k \in 1..Len(entries) : entries[k].repoId = i
       /\ \E k \in 1..Len(auditBlocks) : auditBlocks[k].repoId = i


(***************************************************************************)
(* The leaderboard rows, read in Spec.                                     *)
(***************************************************************************)
\* Lines 698-714 for the run in slot p: the deltas its mutation applies.
DeltasOfRun(p) ==
  LET hits == RepoIdsBySlug(repositories, index[p].slug)
      existingEntries == IF hits = {} THEN <<>>
                         ELSE ExistingEntriesOf(entries, CHOOSE i \in hits : TRUE)
      uniqueExisting == MapValues(UniqueExistingByHandle(existingEntries))
      existingNormalizedEntries == [k \in 1..Len(uniqueExisting) |->
                                      NormalizeStoredEntry(uniqueExisting[k])]
  IN ComputeLeaderboardDeltas(
       ComputeAuditChanges(existingNormalizedEntries, NormalizedNewEntries(index[p].version)))

\* A count of the row of a handle before the step (0 without a row) after a
\* delta, as lines 804-813 clamp it.
CountAfter(handle, field, delta) ==
  LET hits == {row \in leaderboardRows : row.handle = handle}
  IN Max({0, (IF hits = {} THEN 0 ELSE (CHOOSE row \in hits : TRUE)[field]) + delta})

\* C17: every leaderboard row has repositories > 0, vouchedCount >= 0,
\* denouncedCount >= 0, not both counts zero, and score = vouchedCount -
\* denouncedCount; and a handle whose counts after a delta have repositories
\* = 0 or both type counts zero has no row.
C17_LeaderboardRowsWellFormed ==
  /\ [](\A row \in leaderboardRows :
          /\ row.repositories > 0
          /\ row.vouchedCount >= 0
          /\ row.denouncedCount >= 0
          /\ row.vouchedCount + row.denouncedCount > 0
          /\ row.score = row.vouchedCount - row.denouncedCount)
  /\ [][\A p \in IndexSlots :
          ReplaceCompletes(p) =>
            \A k \in 1..Len(DeltasOfRun(p)) :
              LET delta == DeltasOfRun(p)[k]
                  gone == \/ CountAfter(delta.handle, "repositories", delta.repositoriesDelta) = 0
                          \/ /\ CountAfter(delta.handle, "vouchedCount", delta.vouchedDelta) = 0
                             /\ CountAfter(delta.handle, "denouncedCount", delta.denouncedDelta) = 0
              IN gone <=> ~\E row \in leaderboardRows' : row.handle = delta.handle]_vars

\* A handle has lost its row with the entry a run removed, while the
\* leaderboard still has a row.
C17_Witness ==
  /\ leaderboardRows # {}
  /\ \E change \in {auditChanges[k] : k \in 1..Len(auditChanges)} :
       /\ change.action = "removed"
       /\ ~\E row \in leaderboardRows : row.handle = change.handle


(***************************************************************************)
(* The parser, read in the states of SpecParse where it has returned.      *)
(***************************************************************************)
EntryKey(entry) == entry.platform \o <<":">> \o entry.username

\* The lines of the drawn file that yield an entry of this key.
LinesOfKey(key) ==
  {i \in 1..Len(SplitLines(call.input)) :
     ParseLine(SplitLines(call.input)[i]).ok /\ ParseLine(SplitLines(call.input)[i]).key = key}

ParsedKeys ==
  {ParseLine(SplitLines(call.input)[i]).key :
     i \in {j \in 1..Len(SplitLines(call.input)) : ParseLine(SplitLines(call.input)[j]).ok}}

\* C18: parseTrustdown returns at most one entry per platform:username key,
\* an entry for every key a line of the file has, with the type and details of
\* the last line of that key, and it returns the entries in ascending order of
\* the key.
C18_ParserLastLineWinsSorted ==
  (call.fn = "parseTrustdown" /\ call.pc = "returned") =>
    LET out == call.returned
    IN /\ \A i, j \in 1..Len(out) : EntryKey(out[i]) = EntryKey(out[j]) => i = j
       /\ {EntryKey(out[i]) : i \in 1..Len(out)} = ParsedKeys
       /\ \A i \in 1..Len(out) :
            LET last == ParseLine(SplitLines(call.input)[Max(LinesOfKey(EntryKey(out[i])))]).entry
            IN out[i].type = last.type /\ out[i].details = last.details
       /\ \A i \in 1..(Len(out) - 1) : LocaleCompare(EntryKey(out[i]), EntryKey(out[i + 1])) < 0

\* A file whose first and last line have the same key and disagree, with a
\* line of a key that sorts before it in between.
C18_Witness ==
  /\ call.fn = "parseTrustdown" /\ call.pc = "returned"
  /\ Len(call.returned) = 2
  /\ LET lines == SplitLines(call.input)
     IN /\ Len(lines) = 3
        /\ ParseLine(lines[1]).ok /\ ParseLine(lines[2]).ok /\ ParseLine(lines[3]).ok
        /\ ParseLine(lines[1]).key = ParseLine(lines[3]).key
        /\ ParseLine(lines[1]).entry.type # ParseLine(lines[3]).entry.type
        /\ LocaleCompare(ParseLine(lines[2]).key, ParseLine(lines[1]).key) < 0


(***************************************************************************)
(* The cron rotation, read in SpecCronFair.                                *)
(***************************************************************************)
RepoStatusOf(slug) ==
  LET hits == RepoIdsBySlug(repositories, slug)
  IN IF hits = {} THEN "new" ELSE repositories[CHOOSE i \in hits : TRUE].status

\* The cron run holds the permit of slug and indexGithubRepo runs on it.
CronAttempts(slug) == cron.pc = "indexing" /\ cron.slug = slug

\* C19: with hourly reindexTrackedRepos runs and no manual indexing, every
\* tracked repository whose status is not missing_repo is eventually
\* attempted.  (Violated: listTrackedRepoSlugs takes the limit oldest rows
\* and only then drops the missing_repo ones, which no attempt ever refreshes;
\* once limit of them are the oldest rows every run gets an empty list.)
C19_EveryTrackedRepoAttempted ==
  \A slug \in TrackedSlugs : RepoStatusOf(slug) # "missing_repo" => <>CronAttempts(slug)

(***************************************************************************)
(* Route claims.                                                           *)
(***************************************************************************)
\* The request under call has been answered or forwarded.
PostChecked == call.fn = "POST" /\ call.pc # "received"

\* The checks of POST in the order of the claim, as what each one needs of
\* the request; repoLength is the length the third one measures.
PostNeeds(repoLength) ==
  <<IsPublicIndexingEnabled(call.env),
    call.origin \in {"null", "", requestOrigin},
    /\ call.rawRepo # undefined
    /\ repoLength \in 1..MAX_REPO_LENGTH
    /\ NormalizeGithubRepoInput(call.rawRepo) # nullRepo,
    \/ ParseAllowedOwners(call.env).isNull
    \/ NormalizeGithubRepoInput(call.rawRepo).owner \in ParseAllowedOwners(call.env).owners,
    GetIndexerSecret(call.env) # null,
    GetConvexBaseUrl(call.env) # "null">>

\* The status POST answers with when the check in that place fails.
PostRefusals == <<403, 403, 400, 403, 503, 503>>

\* The slug is owner/name in lower case.
IsLowerCaseSlug(slug) ==
  /\ ToLowerCase(slug) = slug
  /\ Len(Split(slug, "/")) = 2
  /\ \A i \in 1..2 : IsValidRepoPart(Split(slug, "/")[i])

PostHonours(needs) ==
  PostChecked =>
    /\ call.upstream.fetches <=> \A i \in 1..Len(needs) : needs[i]
    /\ call.upstream.fetches =>
          /\ call.upstream.repo = NormalizeGithubRepoInput(call.rawRepo).slug
          /\ IsLowerCaseSlug(call.upstream.repo)
    /\ \A i \in 1..Len(needs) :
          (~needs[i] /\ \A j \in 1..(i - 1) : needs[j]) =>
             call.pc = "responded" /\ call.status = PostRefusals[i]

\* C21 as stated: POST /api/index calls /index-repo only if, in this order,
\* public indexing is enabled, the Origin header is absent or same-origin, the
\* body carries a repo string of 1 to 200 characters that normalizes to
\* owner/name, the owner is allowed, and the secret and the Convex URL are
\* configured; the first check that fails decides the answer (403 for disabled
\* indexing and for a cross-origin request), and the body sent upstream
\* carries the normalized lower-case slug.
C21_Original ==
  PostHonours(PostNeeds(IF call.rawRepo = undefined THEN 0 ELSE Len(call.rawRepo)))

\* C21, amended: the same, the length measured being that of the repo string
\* once trimmed: a string longer than 200 characters whose trimmed length is
\* 1 to 200 passes (route.ts line 182).
C21_ForwardsOnlyChecked ==
  PostHonours(PostNeeds(IF call.rawRepo = undefined THEN 0 ELSE Len(Trim(call.rawRepo))))

\* A repo string of more than 200 characters, upper case in it, is forwarded
\* as its lower-case slug.
C21_Witness ==
  /\ PostChecked
  /\ call.upstream.fetches
  /\ Len(call.rawRepo) > MAX_REPO_LENGTH
  /\ call.rawRepo # ToLowerCase(call.rawRepo)
  /\ call.upstream.repo = <<"o", "/", "r">>

(***************************************************************************)
(* Guard claims, continued.                                                *)
(***************************************************************************)
\* p is about to release a lock it acquired a TTL or more ago.
StaleHolder(p) ==
  http[p].pc = "finally" /\ http[p].acquiredAt + INDEX_LOCK_TIMEOUT_MS <= now

\* q holds the lock of the repository by an acquire less than a TTL ago.
FreshHolder(q, repo) ==
  HttpHolds(q, repo) /\ http[q].acquiredAt + INDEX_LOCK_TIMEOUT_MS > now

\* C22: the releaseRepoIndexLock of a pipeline whose own lock has expired and
\* was acquired again by a second pipeline leaves the second pipeline's
\* unexpired lock in place, and an acquire of a third pipeline within the
\* second one's TTL is still refused.  (Violated: the lock row carries no
\* owner and the release deletes whatever row the repository has.)
C22_StaleReleaseSparesLock ==
  [][\A p \in HttpPipes :
        /\ (/\ HttpRelease(p)
            /\ StaleHolder(p)
            /\ \E q \in HttpPipes \ {p} : FreshHolder(q, http[p].repo))
           => \E l \in repoIndexLocks' : l.repo = http[p].repo /\ l.expiresAt > now
        /\ (/\ HttpAcquires(p)
            /\ \E q \in HttpPipes \ {p} : FreshHolder(q, http'[p].repo))
           => http'[p].status = 409]_vars

\* C23: for each rate-limit key, the attempts its counter lets pass within one
\* window (from the attempt that set its count to 1 until its resetAt) are at
\* most its threshold (30, 10, 15), and an attempt that finds the count of
\* one of its keys at the threshold or above, in its window, is answered 429.
C23_CountersCapWindow ==
  [][\A repo \in RateRepoKeys, requester \in RateRequesters :
        RateAttempt(repo, requester, FALSE) =>
          /\ \A key \in RateKeys : call'.passed[key] <= Threshold(key)
          /\ \A i \in 1..3 :
                LET key == KeysOf(repo, requester)[i]
                IN (InWindow(key) /\ BucketOf(indexRateBuckets, key).count >= Threshold(key))
                      => call'.status = 429]_vars

\* Each of the three counters has let its threshold pass within one window,
\* and the last attempt was refused.
C23_Witness ==
  /\ call.fn = "acquireIndexPermit"
  /\ call.status = 429
  /\ call.passed[GlobalKey("ip:1")] = MAX_GLOBAL_REQUESTS_PER_WINDOW
  /\ call.passed[RepoKey("ip:1", "o/r")] = MAX_REQUESTS_PER_WINDOW
  /\ call.passed[RepoGlobalKey("o/r")] = MAX_REPO_GLOBAL_REQUESTS_PER_WINDOW
  /\ \A key \in {GlobalKey("ip:1"), RepoKey("ip:1", "o/r"), RepoGlobalKey("o/r")} :
        InWindow(key) /\ BucketOf(indexRateBuckets, key).count > Threshold(key)

\* The bucket of the key after the step counts this attempt: one more than
\* before within its window, or 1 in a new window.
CountsAttempt(key) ==
  /\ HasBucket(indexRateBuckets', key)
  /\ LET after == BucketOf(indexRateBuckets', key)
     IN IF InWindow(key)
        THEN /\ after.count = BucketOf(indexRateBuckets, key).count + 1
             /\ after.resetAt = BucketOf(indexRateBuckets, key).resetAt
        ELSE after.count = 1 /\ after.resetAt = now + RATE_WINDOW_MS

\* C24: every non-bypassed attempt is counted by each of its three counters,
\* whether or not another of them rejects it.  (Violated: the first counter
\* that says "limited" returns 429 before the later ones are read.)
C24_EveryCounterCounts ==
  [][\A repo \in RateRepoKeys, requester \in RateRequesters :
        RateAttempt(repo, requester, FALSE) =>
          \A i \in 1..3 : CountsAttempt(KeysOf(repo, requester)[i])]_vars

\* C25: acquireIndexPermit called with skipRateLimit = true never answers 429
\* and neither creates nor increments a rate bucket, however full the buckets
\* are; it answers 400 when the repo is invalid and otherwise 409 when the
\* repository has an unexpired lock, else it grants the permit.
C25_BypassSkipsCounters ==
  [][\A repo \in RateRepoKeys \cup {""} :
        RateAttempt(repo, cronRequester, TRUE) =>
          /\ call'.status \in {200, 400, 409}
          /\ call'.status = 400 <=> repo = ""
          /\ call'.status = 409 <=> repo # "" /\ Locked(repo)
          /\ indexRateBuckets' \subseteq indexRateBuckets]_vars

\* A bypassed call is refused for the lock alone while a bucket of the
\* repository is over its threshold.
C25_Witness ==
  /\ call.fn = "acquireIndexPermit"
  /\ call.skipRateLimit
  /\ call.status = 409
  /\ InWindow(RepoGlobalKey("o/r"))
  /\ BucketOf(indexRateBuckets, RepoGlobalKey("o/r")).count
        > MAX_REPO_GLOBAL_REQUESTS_PER_WINDOW

\* The attempt reaches the i-th counter: no earlier one rejects it.
ReachedBy(i) == call'.limitedBy = 0 \/ i <= call'.limitedBy

\* The attempt finds the bucket of the key expired, and leaves it counting 1
\* in a new window without being rejected by it.
RestartsWindow(key, i) ==
  /\ HasBucket(indexRateBuckets', key)
  /\ BucketOf(indexRateBuckets', key).count = 1
  /\ BucketOf(indexRateBuckets', key).resetAt = now + RATE_WINDOW_MS
  /\ call'.limitedBy # i

C27_BlocksLinked ==
  \A b \in 1..Len(auditBlocks) :
     LET block == auditBlocks[b] IN
       /\ block.height = 1 =>
            /\ block.previousBlockId = 0
            /\ block.previousHash = undefined
       /\ block.height > 1 =>
            /\ block.previousBlockId \in BlockIdsOf(block.repoId)
            /\ auditBlocks[block.previousBlockId].height = block.height - 1
            /\ block.previousHash = auditBlocks[block.previousBlockId].blockHash

\* A repository has a block on its genesis block while another repository
\* is stored as well.
C27_Witness ==
  /\ Len(repositories) >= 2
  /\ \E b \in 1..Len(auditBlocks) : auditBlocks[b].height = 2

(***************************************************************************)
(* SpecAppend: the index runs of Spec and rebuildLeaderboardRows beside    *)
(* acquireIndexPermit, called as the cron run calls it, and                *)
(* releaseRepoIndexLock, all against the same database.                    *)
(***************************************************************************)
\* Lines 422-545, with skipRateLimit: true.
PermitStep(repo) ==
  /\ LET permit == AcquireIndexPermit(repoIndexLocks, indexRateBuckets, repo, cronRequester,
                                      TRUE, now)
     IN /\ repoIndexLocks' = permit.locks
        /\ indexRateBuckets' = permit.buckets
  /\ UNCHANGED <<now, callers, store, index, call>>

\* Lines 547-565.
ReleaseStep(repo) ==
  /\ repoIndexLocks' = ReleaseRepoIndexLock(repoIndexLocks, repo)
  /\ UNCHANGED <<now, indexRateBuckets, callers, store, index, call>>

NextAppend ==
  \/ Next
  \/ \E repo \in GuardRepoKeys : PermitStep(repo)
  \/ \E repo \in GuardRepoKeys : ReleaseStep(repo)

SpecAppend == Init /\ [][NextAppend]_vars

\* The rows of a table before a step are its first rows after it, unchanged.
KeepsRows(before, after) ==
  /\ Len(before) <= Len(after)
  /\ \A i \in 1..Len(before) : after[i] = before[i]

\* An auditChanges row names one stored block, and that block is a block of
\* the repository the row names.
BelongsToOwnBlock(change) ==
  /\ change.blockId \in 1..Len(auditBlocks)
  /\ auditBlocks[change.blockId].repoId = change.repoId

\* C28: the audit chain is append-only.  No step of acquireIndexPermit,
\* releaseRepoIndexLock, setRepositoryStatus, replaceRepositorySnapshot, the
\* no-change short-circuit or rebuildLeaderboardRows modifies or deletes a
\* stored audit block or audit change row, and every audit change row
\* belongs to exactly one block, a block of its own repository.
C28_ChainAppendOnly ==
  [][/\ KeepsRows(auditBlocks, auditBlocks')
     /\ KeepsRows(auditChanges, auditChanges')
     /\ \A c \in 1..Len(auditChanges) : BelongsToOwnBlock(auditChanges[c])
     /\ \A c \in 1..Len(auditChanges') : BelongsToOwnBlock(auditChanges[c])']_vars

\* Both repositories have a block with change rows, the lock of one is held
\* by a request, and the leaderboard has been rebuilt over them.
C28_Witness ==
  /\ \A repoId \in 1..Len(repositories) :
        \E c \in 1..Len(auditChanges) : auditChanges[c].repoId = repoId
  /\ Len(repositories) = 2
  /\ repoIndexLocks # {}

(***************************************************************************)
(* SpecDiff: computeAuditChanges (src/unnamed/part_010, lines 207-266) on  *)
(* two drawn lists of normalized entries, called once in each direction.   *)
(***************************************************************************)
\* Parsed entries of three handles; two of them come in three variants.
DiffParsedEntries ==
  {[platform |-> github, username |-> username, type |-> variant[1], details |-> variant[2]] :
     username \in {<<"a">>, <<"b">>},
     variant \in {<<"vouch", undefined>>, <<"denounce", undefined>>, <<"vouch", <<"x">>>>}}
    \cup {[platform |-> <<"h", "u", "b">>, username |-> <<"a">>, type |-> "vouch",
           details |-> undefined]}

DiffEntries == {NormalizeEntry(entry) : entry \in DiffParsedEntries}

\* The lists of at most MaxDiffLen entries, a handle more than once included.
DiffLists == UNION {[1..n -> DiffEntries] : n \in 0..MaxDiffLen}

InitDiff ==
  /\ IdleSystem
  /\ \E previous \in DiffLists, next \in DiffLists :
        call = [fn |-> "computeAuditChanges", pc |-> "drawn", previous |-> previous,
                next |-> next, forward |-> <<>>, backward |-> <<>>]

\* computeAuditChanges(previous, next) and computeAuditChanges(next, previous).
Diff ==
  /\ call.fn = "computeAuditChanges"
  /\ call.pc = "drawn"
  /\ call' = [call EXCEPT !.pc = "returned",
                          !.forward = ComputeAuditChanges(call.previous, call.next),
                          !.backward = ComputeAuditChanges(call.next, call.previous)]
  /\ UNCHANGED <<now, guard, callers, store, index>>

NextDiff == Diff

SpecDiff == InitDiff /\ [][NextDiff]_vars

(***************************************************************************)
(* Audit diff claims.                                                      *)
(***************************************************************************)
HandlesOf(list) == {list[i].handle : i \in 1..Len(list)}

\* The (type, details) a list gives a handle: one value where the handle
\* occurs once or its occurrences agree, none where it does not occur.
ContentOf(list, handle) ==
  {<<list[i].type, list[i].details>> : i \in {j \in 1..Len(list) : list[j].handle = handle}}

\* The places of the records of a handle in a list of changes.
RecordsOf(changes, handle) == {k \in 1..Len(changes) : changes[k].handle = handle}

\* Exactly one record of the handle, and of this action.
OneRecord(changes, handle, action) ==
  /\ Cardinality(RecordsOf(changes, handle)) = 1
  /\ \A k \in RecordsOf(changes, handle) : changes[k].action = action

\* C29: computeAuditChanges(previous, next) returns exactly one record for
\* each handle that is on one side only (added when absent before, removed
\* when absent after) or whose type or details differ between the sides
\* (changed), no record for a handle whose type and details are equal on
\* both sides, and never two records for one handle.
C29_OneRecordPerDifference ==
  (call.fn = "computeAuditChanges" /\ call.pc = "returned") =>
     /\ \A k \in 1..Len(call.forward) :
           call.forward[k].handle \in HandlesOf(call.previous) \cup HandlesOf(call.next)
     /\ \A handle \in HandlesOf(call.previous) \cup HandlesOf(call.next) :
           LET before == ContentOf(call.previous, handle)
               after == ContentOf(call.next, handle)
           IN /\ Cardinality(RecordsOf(call.forward, handle)) <= 1
              /\ before = {} => OneRecord(call.forward, handle, "added")
              /\ after = {} => OneRecord(call.forward, handle, "removed")
              /\ (Cardinality(before) = 1 /\ Cardinality(after) = 1 /\ before # after)
                    => OneRecord(call.forward, handle, "changed")
              /\ (Cardinality(before) = 1 /\ before = after)
                    => RecordsOf(call.forward, handle) = {}

\* A call returned an added record and the changed record of a handle that
\* the previous list has twice.
C29_Witness ==
  /\ call.fn = "computeAuditChanges"
  /\ call.pc = "returned"
  /\ {call.forward[k].action : k \in 1..Len(call.forward)} = {"added", "changed"}
  /\ Len(call.previous) > Cardinality(HandlesOf(call.previous))

\* No handle occurs twice in the list.
UniqueHandles(list) == Cardinality(HandlesOf(list)) = Len(list)

\* The record a change becomes when the two lists change places.
Mirrored(change, other) ==
  /\ other.handle = change.handle
  /\ other.action = CASE change.action = "added" -> "removed"
                       [] change.action = "removed" -> "added"
                       [] OTHER -> "changed"
  /\ other.beforeType = change.afterType
  /\ other.afterType = change.beforeType
  /\ other.beforeDetails = change.afterDetails
  /\ other.afterDetails = change.beforeDetails

\* C30: for lists A and B with unique handles, computeAuditChanges(A, B) and
\* computeAuditChanges(B, A) list the same handles in the same order, every
\* added record of one being a removed record of the other with its after
\* type and details as the before type and details, and every changed
\* record having its before and after type and details swapped.
C30_DiffMirrors ==
  (/\ call.fn = "computeAuditChanges"
   /\ call.pc = "returned"
   /\ UniqueHandles(call.previous)
   /\ UniqueHandles(call.next)) =>
     /\ Len(call.forward) = Len(call.backward)
     /\ \A k \in 1..Len(call.forward) : Mirrored(call.forward[k], call.backward[k])

\* Lists with unique handles gave an added, a removed and a changed record,
\* the added one with details.
C30_Witness ==
  /\ call.fn = "computeAuditChanges"
  /\ call.pc = "returned"
  /\ UniqueHandles(call.previous)
  /\ UniqueHandles(call.next)
  /\ {call.forward[k].action : k \in 1..Len(call.forward)} = {"added", "removed", "changed"}
  /\ \E k \in 1..Len(call.backward) :
        call.backward[k].action = "removed" /\ call.backward[k].beforeDetails # undefined

\* The lists that hold the entries of a list in another order.
Reorderings(list) ==
  {[i \in 1..Len(list) |-> list[f[i]]] :
     f \in {g \in [1..Len(list) -> 1..Len(list)] :
              \A i, j \in 1..Len(list) : g[i] = g[j] => i = j}}

\* The digest of a genesis block that carries the changes (lines 850-872).
BlockHashOver(changes) ==
  Sha256Hex(SerializedBlock("o/r", 1, undefined, 1, 0, Versions[1], changes))

\* C31: the output of computeAuditChanges is in ascending handle order, and
\* it is the same list for every permutation of the previous list and every
\* permutation of the next list (handles unique on each side), so the block
\* hash does not depend on the order the entries are iterated in.
C31_DiffOrderIndependent ==
  (/\ call.fn = "computeAuditChanges"
   /\ call.pc = "returned"
   /\ UniqueHandles(call.previous)
   /\ UniqueHandles(call.next)) =>
     /\ \A k, l \in 1..Len(call.forward) :
           k < l => LocaleCompare(call.forward[k].handle, call.forward[l].handle) < 0
     /\ \A previous \in Reorderings(call.previous), next \in Reorderings(call.next) :
           /\ ComputeAuditChanges(previous, next) = call.forward
           /\ BlockHashOver(ComputeAuditChanges(previous, next)) = BlockHashOver(call.forward)

\* Both lists hold two handles, the later handle first, and the call
\* returned a record for each of three handles.
C31_Witness ==
  /\ call.fn = "computeAuditChanges"
  /\ call.pc = "returned"
  /\ UniqueHandles(call.previous)
  /\ UniqueHandles(call.next)
  /\ Len(call.previous) = 2
  /\ Len(call.next) = 2
  /\ LocaleCompare(call.previous[1].handle, call.previous[2].handle) > 0
  /\ LocaleCompare(call.next[1].handle, call.next[2].handle) > 0
  /\ Len(call.forward) = 3

(***************************************************************************)
(* Planner claims, continued (SpecPlan).                                   *)
(***************************************************************************)
\* A surviving row whose handle is in the new set and whose repoSlug or
\* snapshotId is not the expected one.
StaleSurvivor(i) ==
  /\ i \in SurvivorPlaces
  /\ call.existingEntries[i].handle \in NewHandles
  /\ \/ call.existingEntries[i].repoSlug # planRepoSlug
     \/ call.existingEntries[i].snapshotId # planSnapshotId

\* The row says what the new entry of its handle says.
SameContent(existing) ==
  /\ existing.platform = NewEntryOf(existing.handle).platform
  /\ existing.username = NewEntryOf(existing.handle).username
  /\ existing.type = NewEntryOf(existing.handle).type
  /\ existing.details = NewEntryOf(existing.handle).details

\* C32: planEntryReconciliation emits a patch for every surviving existing
\* entry present in the new set whose repoSlug is missing or differs from the
\* expected slug, or whose snapshotId differs from the expected snapshot id,
\* even when its platform, username, type and details equal the new entry;
\* the patch carries the expected slug and snapshot id.
C32_StaleRowsArePatched ==
  PlanApplied =>
    \A i \in 1..Len(call.existingEntries) :
       StaleSurvivor(i) =>
         /\ Cardinality({k \in 1..Len(call.plan.patches) :
                           call.plan.patches[k].id = call.existingEntries[i].id}) = 1
         /\ \A k \in 1..Len(call.plan.patches) :
               call.plan.patches[k].id = call.existingEntries[i].id =>
                 /\ call.plan.patches[k].patch.repoSlug = planRepoSlug
                 /\ call.plan.patches[k].patch.snapshotId = planSnapshotId
                 /\ call.plan.patches[k].patch.handle = call.existingEntries[i].handle

\* A row without repoSlug and a row of an older snapshot, both saying what
\* the new set says, are the two patches of the plan.
C32_Witness ==
  /\ PlanApplied
  /\ Len(call.plan.patches) = 2
  /\ \E i, j \in 1..Len(call.existingEntries) :
        /\ StaleSurvivor(i)
        /\ StaleSurvivor(j)
        /\ SameContent(call.existingEntries[i])
        /\ SameContent(call.existingEntries[j])
        /\ call.existingEntries[i].repoSlug = "undefined"
        /\ call.existingEntries[j].snapshotId # planSnapshotId

(***************************************************************************)
(* SpecDeltas: computeLeaderboardDeltas (src/unnamed/part_010, lines       *)
(* 268-316) on a drawn list of audit changes, a handle more than once      *)
(* included.                                                               *)
(***************************************************************************)
\* (action, beforeType, afterType, beforeDetails, afterDetails) of a change.
DeltaShapes ==
  {<<"added", "undefined", "vouch", undefined, undefined>>,
   <<"added", "undefined", "denounce", undefined, <<"x">>>>,
   <<"removed", "vouch", "undefined", undefined, undefined>>,
   <<"removed", "denounce", "undefined", <<"x">>, undefined>>,
   <<"changed", "vouch", "denounce", undefined, undefined>>,
   <<"changed", "denounce", "vouch", <<"x">>, undefined>>,
   <<"changed", "vouch", "vouch", undefined, <<"x">>>>,
   <<"changed", "denounce", "denounce", <<"x">>, undefined>>}

DeltaChanges ==
  {[platform |-> github, username |-> username, handle |-> github \o <<":">> \o username,
    action |-> shape[1], beforeType |-> shape[2], afterType |-> shape[3],
    beforeDetails |-> shape[4], afterDetails |-> shape[5]] :
     username \in {<<"a">>, <<"b">>}, shape \in DeltaShapes}

DeltaChangeLists == UNION {[1..n -> DeltaChanges] : n \in 0..MaxDeltaChanges}

InitDeltas ==
  /\ IdleSystem
  /\ \E changes \in DeltaChangeLists :
        call = [fn |-> "computeLeaderboardDeltas", pc |-> "drawn", changes |-> changes,
                deltas |-> <<>>]

Deltas ==
  /\ call.fn = "computeLeaderboardDeltas"
  /\ call.pc = "drawn"
  /\ call' = [call EXCEPT !.pc = "returned", !.deltas = ComputeLeaderboardDeltas(call.changes)]
  /\ UNCHANGED <<now, guard, callers, store, index>>

NextDeltas == Deltas

SpecDeltas == InitDeltas /\ [][NextDeltas]_vars

(***************************************************************************)
(* Leaderboard delta claims.                                               *)
(***************************************************************************)
\* How many changes of the list are of the handle and the action and have
\* the type before (or after).
ChangesFromType(changes, handle, action, type) ==
  Cardinality({k \in 1..Len(changes) :
                 /\ changes[k].handle = handle
                 /\ changes[k].action = action
                 /\ changes[k].beforeType = type})

ChangesToType(changes, handle, action, type) ==
  Cardinality({k \in 1..Len(changes) :
                 /\ changes[k].handle = handle
                 /\ changes[k].action = action
                 /\ changes[k].afterType = type})

\* The sum over the changes of a handle: +1 to the after-type count for
\* added, -1 to the before-type count for removed, both for changed.
ExpectedTypeDelta(changes, handle, type) ==
  ChangesToType(changes, handle, "added", type) - ChangesFromType(changes, handle, "removed", type)
    + ChangesToType(changes, handle, "changed", type)
    - ChangesFromType(changes, handle, "changed", type)

\* +1 repositories for added, -1 for removed, nothing for changed.
ExpectedRepositoriesDelta(changes, handle) ==
  Cardinality({k \in 1..Len(changes) :
                 changes[k].handle = handle /\ changes[k].action = "added"})
    - Cardinality({k \in 1..Len(changes) :
                     changes[k].handle = handle /\ changes[k].action = "removed"})

\* The places of the deltas of a handle in the returned list.
DeltasOf(handle) == {k \in 1..Len(call.deltas) : call.deltas[k].handle = handle}

\* C33: computeLeaderboardDeltas gives, per handle summed over the changes:
\* for added, +1 to the after-type count and +1 repositories; for removed,
\* -1 to the before-type count and -1 repositories; for changed, -1 to the
\* before-type count and +1 to the after-type count with repositories
\* unchanged; a change that alters only details yields no delta for that
\* handle.
C33_DeltasSumPerHandle ==
  (call.fn = "computeLeaderboardDeltas" /\ call.pc = "returned") =>
     /\ \A k \in 1..Len(call.deltas) :
           \E c \in 1..Len(call.changes) : call.changes[c].handle = call.deltas[k].handle
     /\ \A handle \in {call.changes[c].handle : c \in 1..Len(call.changes)} :
           LET vouched == ExpectedTypeDelta(call.changes, handle, "vouch")
               denounced == ExpectedTypeDelta(call.changes, handle, "denounce")
               repos == ExpectedRepositoriesDelta(call.changes, handle)
           IN IF vouched = 0 /\ denounced = 0 /\ repos = 0
              THEN DeltasOf(handle) = {}
              ELSE /\ Cardinality(DeltasOf(handle)) = 1
                   /\ \A k \in DeltasOf(handle) :
                         /\ call.deltas[k].vouchedDelta = vouched
                         /\ call.deltas[k].denouncedDelta = denounced
                         /\ call.deltas[k].repositoriesDelta = repos
     /\ \A c \in 1..Len(call.changes) :
           (/\ call.changes[c].action = "changed"
            /\ call.changes[c].beforeType = call.changes[c].afterType
            /\ \A d \in 1..Len(call.changes) :
                  call.changes[d].handle = call.changes[c].handle => d = c)
             => DeltasOf(call.changes[c].handle) = {}

\* A details-only change of one handle beside an added and a changed record
\* of another: one delta, the sum of the two.
C33_Witness ==
  /\ call.fn = "computeLeaderboardDeltas"
  /\ call.pc = "returned"
  /\ Len(call.changes) = 3
  /\ \E c \in 1..3 :
        /\ call.changes[c].action = "changed"
        /\ call.changes[c].beforeType = call.changes[c].afterType
        /\ {call.changes[d].action : d \in (1..3) \ {c}} = {"added", "changed"}
        /\ \A d \in (1..3) \ {c} : call.changes[d].handle # call.changes[c].handle
  /\ Len(call.deltas) = 1
  /\ call.deltas[1].repositoriesDelta = 1
  /\ call.deltas[1].vouchedDelta = 0
  /\ call.deltas[1].denouncedDelta = 1

(***************************************************************************)
(* Parser claims, continued (SpecParse).                                   *)
(***************************************************************************)
\* The handle token of a line, <<>> for a line that has none: what \S+
\* matches after the trim and the denounce marker (lines 138-154).
HandleToken(rawLine) ==
  LET line == Trim(rawLine)
      remainder == IF line # <<>> /\ Head(line) = "-" THEN Trim(Tail(line)) ELSE line
  IN IF line = <<>> \/ Head(line) = "#" \/ remainder = <<>> THEN <<>>
     ELSE IF MatchRemainder(remainder).matched THEN MatchRemainder(remainder).handlePart
     ELSE <<>>

\* Platform and username of a token: split at the first ":", the left part
\* lower-cased, the whole right part without its leading "@" lower-cased;
\* github and the token where it has no ":".
SplitAtFirstColon(token) ==
  LET i == IndexOf(token, ":")
  IN IF i = 0
     THEN [platform |-> github, username |-> ToLowerCase(StripLeadingAt(token))]
     ELSE [platform |-> ToLowerCase(SubSeq(token, 1, i - 1)),
           username |-> ToLowerCase(StripLeadingAt(SubSeq(token, i + 1, Len(token))))]

\* C34: for a handle token that contains ':', parseTrustdown takes the text
\* before the first ':' (lower-cased) as platform and the whole text after
\* the first ':' (leading '@' stripped, lower-cased) as username; for a
\* token without ':' the platform is github.
C34_SplitsAtFirstColon ==
  (call.fn = "parseTrustdown" /\ call.pc = "returned") =>
    \A i \in 1..Len(SplitLines(call.input)) :
       LET token == HandleToken(SplitLines(call.input)[i])
           claimed == SplitAtFirstColon(token)
       IN (token # <<>> /\ claimed.platform # <<>> /\ claimed.username # <<>>) =>
            \E k \in 1..Len(call.returned) :
               /\ call.returned[k].platform = claimed.platform
               /\ call.returned[k].username = claimed.username

\* A line of one of the kinds the parser passes over: blank, a comment, a
\* lone "-", or a token whose platform or username is empty once normalized.
Skippable(rawLine) ==
  \/ Trim(rawLine) = <<>>
  \/ Head(Trim(rawLine)) = "#"
  \/ Trim(rawLine) = <<"-">>
  \/ /\ HandleToken(rawLine) # <<>>
     /\ \/ SplitAtFirstColon(HandleToken(rawLine)).platform = <<>>
        \/ SplitAtFirstColon(HandleToken(rawLine)).username = <<>>

\* The file without its skippable lines.
WithoutSkippable(input) ==
  Join(SelectSeq(SplitLines(input), LAMBDA rawLine : ~Skippable(rawLine)), <<"\n">>)

\* C35: parseTrustdown never fails on any input text: blank lines, lines
\* whose first non-space character is '#', a lone '-' and lines whose
\* platform or username is empty after normalization are skipped without
\* changing the entries produced from the other lines; an accepted line
\* starting with '-' yields type denounce and every other accepted line
\* yields type vouch.
C35_SkipsAndTypes ==
  (call.fn = "parseTrustdown" /\ call.pc = "returned") =>
    /\ call.returned = ParseTrustdown(WithoutSkippable(call.input))
    /\ \A i \in 1..Len(SplitLines(call.input)) :
          Skippable(SplitLines(call.input)[i]) => ~ParseLine(SplitLines(call.input)[i]).ok
    /\ \A k \in 1..Len(call.returned) :
          LET last == Trim(SplitLines(call.input)[Max(LinesOfKey(EntryKey(call.returned[k])))])
          IN call.returned[k].type = IF Head(last) = "-" THEN "denounce" ELSE "vouch"

\* A file of a lone "-", a comment and a line without username around a
\* denounce line: one entry, of type denounce.
C35_Witness ==
  /\ call.fn = "parseTrustdown"
  /\ call.pc = "returned"
  /\ Len(call.returned) = 1
  /\ call.returned[1].type = "denounce"
  /\ LET lines == SplitLines(call.input)
     IN /\ Len(lines) = 3
        /\ Skippable(lines[1])
        /\ ~Skippable(lines[2])
        /\ Skippable(lines[3])
        /\ Trim(lines[1]) = <<"-">>
        /\ HandleToken(lines[3]) # <<>>

(***************************************************************************)
(* Audit chain claims: the chain as the history of the stored entries.     *)
(***************************************************************************)
\* A set of (handle, type, details) after one change: added inserts, removed
\* deletes, changed replaces type and details.
Replayed(set, change) ==
  LET others == {e \in set : e.handle # change.handle}
  IN IF change.action = "removed" THEN others
     ELSE others \cup {[handle |-> change.handle, type |-> change.afterType,
                        details |-> change.afterDetails]}

\* The set after the first n rows of a list of changes.
RECURSIVE ReplayedOver(_, _, _)
ReplayedOver(set, changes, n) ==
  IF n = 0 THEN set
  ELSE Replayed(ReplayedOver(set, changes, n - 1), changes[n])

\* The auditChanges rows of the block of a repository at a height, in the
\* order they were written.
ChangesAtHeight(repoId, height) ==
  SelectSeq(auditChanges,
            LAMBDA row : /\ row.repoId = repoId
                         /\ auditBlocks[row.blockId].repoId = repoId
                         /\ auditBlocks[row.blockId].height = height)

\* The empty set after the blocks of a repository up to a height.
RECURSIVE ReplayedChain(_, _)
ReplayedChain(repoId, height) ==
  IF height = 0 THEN {}
  ELSE ReplayedOver(ReplayedChain(repoId, height - 1), ChangesAtHeight(repoId, height),
                    Len(ChangesAtHeight(repoId, height)))

StoredTriplesOf(repoId) ==
  {[handle |-> entries[i].handle, type |-> entries[i].type, details |-> entries[i].details] :
     i \in {j \in 1..Len(entries) : entries[j].repoId = repoId}}

\* C36: in every reachable state, for every repository, applying the changes
\* of its audit blocks in height order to the empty set yields exactly the
\* (handle, type, details) of the repository's stored entries.
C36_ChainReplaysToEntries ==
  \A repoId \in 1..Len(repositories) :
     ReplayedChain(repoId, Cardinality(BlockIdsOf(repoId))) = StoredTriplesOf(repoId)

(***************************************************************************)
(* SpecSlug: /index-repo requests whose repo strings differ (http.ts lines *)
(* 47-83), the clock standing still so that no lock expires.  A repo       *)
(* string of the requests is a name here; RepoText gives its characters.   *)
(***************************************************************************)
RepoStrings == {"o/r", " O/R", "github.com/o/r", "b/r"}

RepoText(repo) ==
  CASE repo = "o/r" -> <<"o", "/", "r">>
    [] repo = " O/R" -> <<" ", "O", "/", "R">>
    [] repo = "github.com/o/r" -> githubCom \o <<"o", "/", "r">>
    [] repo = "b/r" -> <<"b", "/", "r">>

RepoString(text) == CHOOSE repo \in RepoStrings : RepoText(repo) = text

\* http.ts line 57: repo.trim().toLowerCase(), the key of the permit and the
\* argument of indexGithubRepo.
NormalizedRepo(rawRepo) == RepoString(ToLowerCase(Trim(RepoText(rawRepo))))

\* normalizeGithubSlug (part_010 lines 76-98): the steps of
\* normalizeGithubRepoInput; it throws where that one returns null.
NormalizeGithubSlug(input) == NormalizeGithubRepoInput(input)

\* The repository the run of a request works on (part_010 line 928).
IndexedSlug(p) == NormalizeGithubSlug(RepoText(http[p].repo)).slug

SlugPipes == {"h1", "h2"}

\* Lines 47-64 for a request with this repo string.
HttpReceives(p, rawRepo, requester) == HttpIndexRepo(p, NormalizedRepo(rawRepo), requester)

NextSlug ==
  \/ \E p \in SlugPipes, rawRepo \in RepoStrings, requester \in Requesters :
        /\ BucketsBelow(NormalizedRepo(rawRepo), requester, MaxSlugRequests)
        /\ HttpReceives(p, rawRepo, requester)
  \/ \E p \in SlugPipes : HttpIndexReturns(p)
  \/ \E p \in SlugPipes : HttpIndexThrows(p)
  \/ \E p \in SlugPipes : HttpRelease(p)
  \/ \E p \in SlugPipes : HttpReleaseFails(p)
  \/ \E p \in SlugPipes : HttpRespond(p)

SpecSlug == Init /\ [][NextSlug]_vars

\* C37: two /index-repo requests whose repo strings differ but normalize to
\* the same owner/name slug contend for the same lock: while the first holds
\* its permit the second is refused, so both never index the same repository
\* at once.
C37_SameSlugSameLock ==
  \A p \in SlugPipes, q \in SlugPipes :
     (p # q /\ http[p].pc = "indexing" /\ http[q].pc = "indexing")
        => IndexedSlug(p) # IndexedSlug(q)

(***************************************************************************)
(* Storage claims, continued (Spec).                                       *)
(***************************************************************************)
\* C38: after every completed replaceRepositorySnapshot the repository's
\* cached entryCount, vouchedCount and denouncedCount equal the numbers of
\* entries, vouch entries and denounce entries stored for that repository,
\* for every entry list the parser can produce.
C38_CachedCountsMatchStored ==
  [][\A p \in IndexSlots :
       ReplaceCompletes(p) =>
         LET stored == StoredEntriesOf(repositories', entries', index[p].slug)
             repo == repositories'[CHOOSE i \in RepoIdsBySlug(repositories', index[p].slug) : TRUE]
         IN /\ repo.entryCount = Len(stored)
            /\ repo.vouchedCount = Cardinality({k \in 1..Len(stored) : stored[k].type = "vouch"})
            /\ repo.denouncedCount =
                 Cardinality({k \in 1..Len(stored) : stored[k].type = "denounce"})]_vars

(***************************************************************************)
(* Cron claims, continued.                                                 *)
(***************************************************************************)
\* The counters reindexTrackedRepos returns add up to attempted.
CountersAddUp ==
  cron.attempted = cron.indexed + cron.missingFile + cron.missingRepo + cron.failed

\* C39: in reindexTrackedRepos, a refused permit or a failing
\* indexGithubRepo for one repository does not prevent the remaining
\* repositories of the batch from being attempted, and the returned counters
\* satisfy attempted = indexed + missingFile + missingRepo + failed: every
\* step that ends the turn of one slug leaves the slugs after it in the
\* queue, and a run that returns has counters that add up.
\* (Violated: the await of indexGithubRepo at line 1208 has a .finally but no
\* catch, so an indexGithubRepo that throws rejects the action after the
\* release; the slugs after it are never attempted and nothing is returned.)
C39_BatchSurvivesFailures ==
  [][/\ cron.pc = "loop" /\ cron.queue # <<>> /\ cron' # cron
          => cron'.queue \in {cron.queue, Tail(cron.queue)}
     /\ cron.pc = "finally" /\ cron' # cron
          => cron'.queue = Tail(cron.queue)
     /\ cron'.pc = "returned" => CountersAddUp']_vars


(***************************************************************************)
(* SpecTables: every mutation that inserts a row under a key it has looked *)
(* up, against one database: acquireIndexPermit as /index-repo calls it    *)
(* and as the cron run calls it, releaseRepoIndexLock, and the             *)
(* indexGithubRepo runs of two repositories, two at a time, with their     *)
(* setRepositoryStatus and replaceRepositorySnapshot.  The clock advances  *)
(* by a whole window, after which locks and buckets written before it have *)
(* run out.                                                                *)
(***************************************************************************)
WindowPasses ==
  /\ now < MaxTableWindows * RATE_WINDOW_MS
  /\ now' = now + RATE_WINDOW_MS
  /\ UNCHANGED <<guard, callers, store, index, call>>

\* Lines 422-545, for a caller that counts attempts (http.ts line 58) or
\* skips the rate limits (line 1196).
PermitCall(repo, requester, skipRateLimit) ==
  /\ BucketsBelow(repo, requester, MaxTableBucketCount)
  /\ LET permit == AcquireIndexPermit(repoIndexLocks, indexRateBuckets, repo, requester,
                                      skipRateLimit, now)
     IN /\ repoIndexLocks' = permit.locks
        /\ indexRateBuckets' = permit.buckets
  /\ UNCHANGED <<now, callers, store, index, call>>

NextTables ==
  \/ WindowPasses
  \/ \E repo \in GuardRepoKeys, requester \in Requesters : PermitCall(repo, requester, FALSE)
  \/ \E repo \in GuardRepoKeys : PermitCall(repo, cronRequester, TRUE)
  \/ \E repo \in GuardRepoKeys : ReleaseStep(repo)
  \/ \E slug \in Slugs : IndexMissingFile(slug)
  \/ \E p \in IndexSlots, slug \in Slugs :
        BlocksInSight < MaxAuditBlocks /\ IndexQueryMeta(p, slug, 1)
  \/ \E p \in IndexSlots : IndexShortCircuit(p)
  \/ \E p \in IndexSlots : IndexReplace(p)

SpecTables == Init /\ [][NextTables]_vars

\* No two rows of a table of records carry the same value in the field, and
\* the same for a table kept in insertion order.
OneRowPerKey(rows, KeyOf(_)) ==
  \A x, y \in rows : KeyOf(x) = KeyOf(y) => x = y

OneRowPerKeyInOrder(table, KeyOf(_)) ==
  \A i, j \in 1..Len(table) : KeyOf(table[i]) = KeyOf(table[j]) => i = j

\* The handles replaceRepositorySnapshot can look a leaderboard row up by:
\* those of the stored entries and of the rows themselves.
LookupHandles ==
  {entries[i].handle : i \in 1..Len(entries)} \cup {row.handle : row \in leaderboardRows}

\* A delta of lines 277-286 for a handle, as the loop of line 798 gets it.
DeltaOf(handle) ==
  [platform |-> "github", username |-> handle, handle |-> handle, vouchedDelta |-> 1,
   denouncedDelta |-> 0, repositoriesDelta |-> 1]

\* None of the mutations, called now, would throw on a .unique() lookup:
\* acquireIndexPermit with and without the rate limits, releaseRepoIndexLock,
\* setRepositoryStatus and getRepositorySnapshotMeta on by_slug (the lookup
\* of lines 667-670 as well), and the by_handle lookup of lines 799-802 for
\* every handle.
UniqueLookupsSucceed ==
  /\ \A repo \in GuardRepoKeys, requester \in Requesters :
        AcquireIndexPermit(repoIndexLocks, indexRateBuckets, repo, requester, FALSE, now).status
          # 500
  /\ \A repo \in GuardRepoKeys :
        /\ AcquireIndexPermit(repoIndexLocks, indexRateBuckets, repo, cronRequester, TRUE,
                              now).status # 500
        /\ Cardinality({l \in repoIndexLocks : l.repo = repo}) <= 1
  /\ \A slug \in Slugs :
        /\ ~SetRepositoryStatus(Db, slug, "indexed", "undefined", now).threw
        /\ ~GetRepositorySnapshotMeta(Db, slug).threw
  /\ \A handle \in LookupHandles :
        ~ApplyLeaderboardDelta(leaderboardRows, DeltaOf(handle), now).threw

\* C40: in every reachable state there is at most one lock row per
\* repository key, one rate bucket per key, one repository row per slug, one
\* snapshot row per repository and one leaderboard row per handle, so none of
\* the unique lookups used by acquireIndexPermit, releaseRepoIndexLock,
\* setRepositoryStatus and replaceRepositorySnapshot can fail, under any
\* interleaving of pipelines.
C40_OneRowPerKey ==
  /\ OneRowPerKey(repoIndexLocks, LAMBDA l : l.repo)
  /\ OneRowPerKey(indexRateBuckets, LAMBDA b : b.key)
  /\ OneRowPerKeyInOrder(repositories, LAMBDA r : r.slug)
  /\ OneRowPerKeyInOrder(snapshots, LAMBDA s : s.repoId)
  /\ OneRowPerKey(leaderboardRows, LAMBDA row : row.handle)
  /\ UniqueLookupsSucceed

\* C40's case: after the first window a lock and the three buckets of a
\* requester are in use again, both repositories have been indexed by runs
\* that went through setRepositoryStatus and replaceRepositorySnapshot, and a
\* handle both files name has its one leaderboard row.
C40_Witness ==
  /\ now > 0
  /\ \E l \in repoIndexLocks : l.expiresAt = now + INDEX_LOCK_TIMEOUT_MS
  /\ Cardinality(indexRateBuckets) = 3
  /\ \E b \in indexRateBuckets : b.resetAt = now + RATE_WINDOW_MS /\ b.count = 2
  /\ Len(repositories) = 2 /\ Len(snapshots) = 2
  /\ \E row \in leaderboardRows : row.repositories = 2

====
